---- MODULE Spec2Model ----
(***************************************************************************)
(* A model of worker-tools/cloudflare-kv-storage: the key codec            *)
(* (src/src/key-encoding.ts), the key validator (src/src/common.ts) and    *)
(* the storage area facade over a Cloudflare KV namespace (src/index.ts,   *)
(* src/packer.ts).                                                         *)
(*                                                                         *)
(* A JS string is a sequence of characters, each character a one-letter    *)
(* TLA+ string; the pseudo-character LoneSurrogate stands for an unpaired  *)
(* UTF-16 surrogate code unit.  A JS value is a record with a field t      *)
(* naming its type.                                                        *)
(***************************************************************************)
EXTENDS Integers, Sequences, FiniteSets, TLC

(***************************************************************************)
(* Bounds of the model.                                                    *)
(***************************************************************************)
MaxStrLen == 3
MaxArrLen == 2
MaxDepth == 2
MaxRawLen == 5
MaxEntries == 2
ListLimit == 1

MaxPages == 3

MaxPageKeys == 2

(***************************************************************************)
(* Characters.                                                             *)
(***************************************************************************)
LoneSurrogate == "uD800"

Digits == <<"0", "1", "2", "3", "4", "5", "6", "7", "8", "9">>

UpperLetters == <<"A", "B", "C", "D", "E", "F", "G", "H", "I", "J", "K", "L", "M",
                  "N", "O", "P", "Q", "R", "S", "T", "U", "V", "W", "X", "Y", "Z">>

LowerLetters == <<"a", "b", "c", "d", "e", "f", "g", "h", "i", "j", "k", "l", "m",
                  "n", "o", "p", "q", "r", "s", "t", "u", "v", "w", "x", "y", "z">>

Range(f) == { f[i] : i \in DOMAIN f }

\* the index of c in the sequence f (0 when absent)
IndexOf(f, c) == IF c \in Range(f) THEN CHOOSE i \in DOMAIN f : f[i] = c ELSE 0

\* the regular expression class \w (no unicode flag): [A-Za-z0-9_]
IsWordChar(c) == c \in Range(Digits) \cup Range(UpperLetters) \cup Range(LowerLetters) \cup {"_"}

\* const TYPED_REP = /^(\w):/
TYPED_REP(s) == Len(s) >= 2 /\ IsWordChar(s[1]) /\ s[2] = ":"

\* const ARRAY_DELIMITERS = /[\<\|\>]/
IsDelimiter(c) == c \in {"<", "|", ">"}

ARRAY_DELIMITERS(s) == \E i \in 1..Len(s) : IsDelimiter(s[i])

(***************************************************************************)
(* Results of operations that may throw.                                   *)
(***************************************************************************)
Ok(v) == [ok |-> TRUE, v |-> v]

Throw(e) == [ok |-> FALSE, err |-> e]

(***************************************************************************)
(* encodeURIComponent / decodeURIComponent (ECMAScript Encode / Decode).   *)
(***************************************************************************)
\* the code point of a character that is not in uriUnreserved
Ord(c) ==
  CASE c = " " -> 32
    [] c = "%" -> 37
    [] c = "+" -> 43
    [] c = "-" -> 45
    [] c = "." -> 46
    [] c = "/" -> 47
    [] c = ":" -> 58
    [] c = "<" -> 60
    [] c = "=" -> 61
    [] c = ">" -> 62
    [] c = "|" -> 124
    [] c = "é" -> 233
    [] c \in Range(Digits) -> 47 + IndexOf(Digits, c)
    [] c \in Range(UpperLetters) -> 64 + IndexOf(UpperLetters, c)
    [] c \in Range(LowerLetters) -> 96 + IndexOf(LowerLetters, c)
    [] OTHER -> 95

KnownChars == Range(Digits) \cup Range(UpperLetters) \cup Range(LowerLetters)
                \cup {" ", "%", "+", "-", ".", "/", ":", "<", "=", ">", "|", "é", "_"}

\* the character of a code point
Chr(n) == IF \E c \in KnownChars : Ord(c) = n
          THEN CHOOSE c \in KnownChars : Ord(c) = n
          ELSE "U+" \o ToString(n)

HexDigits == <<"0", "1", "2", "3", "4", "5", "6", "7", "8", "9", "A", "B", "C", "D", "E", "F">>

HexLower == <<"0", "1", "2", "3", "4", "5", "6", "7", "8", "9", "a", "b", "c", "d", "e", "f">>

IsHex(c) == c \in Range(HexDigits) \cup Range(HexLower)

HexVal(c) == IF c \in Range(HexDigits) THEN IndexOf(HexDigits, c) - 1 ELSE IndexOf(HexLower, c) - 1

PctByte(b) == <<"%", HexDigits[(b \div 16) + 1], HexDigits[(b % 16) + 1]>>

\* the UTF-8 encoding of a code point below 0x800
Utf8(n) == IF n < 128 THEN <<n>> ELSE <<192 + (n \div 64), 128 + (n % 64)>>

uriUnreserved(c) == c \in Range(Digits) \cup Range(UpperLetters) \cup Range(LowerLetters)
                            \cup {"-", "_", ".", "!", "~", "*", "'", "(", ")"}

PctChar(c) == LET u == Utf8(Ord(c))
              IN IF Len(u) = 1 THEN PctByte(u[1]) ELSE PctByte(u[1]) \o PctByte(u[2])

RECURSIVE encodeURIComponentFrom(_, _)
encodeURIComponentFrom(s, i) ==
  IF i > Len(s) THEN Ok(<<>>)
  ELSE IF s[i] = LoneSurrogate THEN Throw("URIError")
  ELSE LET rest == encodeURIComponentFrom(s, i + 1)
       IN IF ~rest.ok THEN rest
          ELSE Ok((IF uriUnreserved(s[i]) THEN <<s[i]>> ELSE PctChar(s[i])) \o rest.v)

encodeURIComponent(s) == encodeURIComponentFrom(s, 1)

\* the byte of the escape %XX at position i, or -1 when there is none
EscapeAt(s, i) ==
  IF i + 2 <= Len(s) /\ s[i] = "%" /\ IsHex(s[i + 1]) /\ IsHex(s[i + 2])
  THEN 16 * HexVal(s[i + 1]) + HexVal(s[i + 2])
  ELSE -1

RECURSIVE decodeURIComponentFrom(_, _)
decodeURIComponentFrom(s, i) ==
  IF i > Len(s) THEN Ok(<<>>)
  ELSE IF s[i] # "%"
  THEN LET rest == decodeURIComponentFrom(s, i + 1)
       IN IF rest.ok THEN Ok(<<s[i]>> \o rest.v) ELSE rest
  ELSE LET b == EscapeAt(s, i)
       IN IF b < 0 THEN Throw("URIError")
          ELSE IF b < 128
          THEN LET rest == decodeURIComponentFrom(s, i + 3)
               IN IF rest.ok THEN Ok(<<Chr(b)>> \o rest.v) ELSE rest
          ELSE IF b >= 194 /\ b < 224
          THEN LET b2 == EscapeAt(s, i + 3)
               IN IF b2 < 128 \/ b2 >= 192 THEN Throw("URIError")
                  ELSE LET rest == decodeURIComponentFrom(s, i + 6)
                       IN IF rest.ok THEN Ok(<<Chr((b - 192) * 64 + (b2 - 128))>> \o rest.v)
                          ELSE rest
          ELSE Throw("URIError")

decodeURIComponent(s) == decodeURIComponentFrom(s, 1)

(***************************************************************************)
(* Numbers: `n:${key}` (Number::toString) and Number(data)                 *)
(* (StringToNumber).  The numbers of the model are the integers, NaN and   *)
(* the two infinities.                                                      *)
(***************************************************************************)
Num(n) == [t |-> "num", n |-> n]

NaN == [t |-> "nan"]

Infinity == [t |-> "inf", neg |-> FALSE]

NegInfinity == [t |-> "inf", neg |-> TRUE]

IsNumber(v) == v.t \in {"num", "nan", "inf"}

RECURSIVE NatToString(_)
NatToString(n) == IF n < 10 THEN <<Digits[n + 1]>>
                  ELSE NatToString(n \div 10) \o <<Digits[(n % 10) + 1]>>

InfinityString == <<"I", "n", "f", "i", "n", "i", "t", "y">>

NumberToString(v) ==
  CASE v.t = "nan" -> <<"N", "a", "N">>
    [] v.t = "inf" -> IF v.neg THEN <<"-">> \o InfinityString ELSE InfinityString
    [] OTHER -> IF v.n < 0 THEN <<"-">> \o NatToString(-v.n) ELSE NatToString(v.n)

AllDigits(s) == \A i \in 1..Len(s) : s[i] \in Range(Digits)

RECURSIVE DigitsToNat(_)
DigitsToNat(s) == IF s = <<>> THEN 0
                  ELSE 10 * DigitsToNat(SubSeq(s, 1, Len(s) - 1)) + (IndexOf(Digits, s[Len(s)]) - 1)

\* Number(data): the empty string is 0, a signed decimal integer or Infinity
\* is its value, any other text of the model's alphabets is NaN
StringToNumber(s) ==
  LET signed == Len(s) >= 1 /\ s[1] \in {"+", "-"}
      body == IF signed THEN Tail(s) ELSE s
      neg == signed /\ s[1] = "-"
  IN IF s = <<>> THEN Num(0)
     ELSE IF body = InfinityString THEN [t |-> "inf", neg |-> neg]
     ELSE IF body # <<>> /\ AllDigits(body)
     THEN Num(IF neg THEN -DigitsToNat(body) ELSE DigitsToNat(body))
     ELSE NaN

(***************************************************************************)
(* Dates: Date.prototype.toISOString and new Date(string) on the format    *)
(* toISOString produces.  A date is its time value in milliseconds.        *)
(***************************************************************************)
DateOf(ms) == [t |-> "date", ms |-> ms]

InvalidDate == [t |-> "baddate"]

IsDate(v) == v.t \in {"date", "baddate"}

MsPerDay == 86400000

RECURSIVE Pad(_, _)
Pad(s, w) == IF Len(s) >= w THEN s ELSE Pad(<<"0">> \o s, w)

\* the civil date [y, m, d] of a day number counted from 1970-01-01
CivilFromDays(days) ==
  LET z == days + 719468
      era == z \div 146097
      doe == z - era * 146097
      yoe == (doe - doe \div 1460 + doe \div 36524 - doe \div 146096) \div 365
      doy == doe - (365 * yoe + yoe \div 4 - yoe \div 100)
      mp == (5 * doy + 2) \div 153
      d == doy - (153 * mp + 2) \div 5 + 1
      m == IF mp < 10 THEN mp + 3 ELSE mp - 9
  IN [y |-> yoe + era * 400 + (IF m <= 2 THEN 1 ELSE 0), m |-> m, d |-> d]

DaysFromCivil(y0, m, d) ==
  LET y == IF m <= 2 THEN y0 - 1 ELSE y0
      era == y \div 400
      yoe == y - era * 400
      doy == (153 * (IF m > 2 THEN m - 3 ELSE m + 9) + 2) \div 5 + d - 1
      doe == yoe * 365 + yoe \div 4 - yoe \div 100 + doy
  IN era * 146097 + doe - 719468

YearString(y) == IF y >= 0 /\ y <= 9999 THEN Pad(NatToString(y), 4)
                 ELSE IF y < 0 THEN <<"-">> \o Pad(NatToString(-y), 6)
                 ELSE <<"+">> \o Pad(NatToString(y), 6)

toISOString(ms) ==
  LET c == CivilFromDays(ms \div MsPerDay)
      t == ms % MsPerDay
  IN YearString(c.y) \o <<"-">> \o Pad(NatToString(c.m), 2) \o <<"-">> \o Pad(NatToString(c.d), 2)
       \o <<"T">> \o Pad(NatToString(t \div 3600000), 2)
       \o <<":">> \o Pad(NatToString((t \div 60000) % 60), 2)
       \o <<":">> \o Pad(NatToString((t \div 1000) % 60), 2)
       \o <<".">> \o Pad(NatToString(t % 1000), 3) \o <<"Z">>

IsLeap(y) == (y % 4 = 0 /\ y % 100 # 0) \/ y % 400 = 0

DaysInMonth(y, m) == IF m = 2 THEN (IF IsLeap(y) THEN 29 ELSE 28)
                     ELSE IF m \in {4, 6, 9, 11} THEN 30 ELSE 31

\* new Date(data): the time value of a full ISO-8601 UTC date-time string;
\* any other text of the model's alphabets is an Invalid Date
DateParse(s) ==
  LET ext == Len(s) >= 1 /\ s[1] \in {"+", "-"}
      yl == IF ext THEN 7 ELSE 4
      F(a, b) == SubSeq(s, yl + a, yl + b)
      shape == /\ Len(s) = yl + 20
               /\ AllDigits(SubSeq(s, IF ext THEN 2 ELSE 1, yl))
               /\ s[yl + 1] = "-" /\ AllDigits(F(2, 3))
               /\ s[yl + 4] = "-" /\ AllDigits(F(5, 6))
               /\ s[yl + 7] = "T" /\ AllDigits(F(8, 9))
               /\ s[yl + 10] = ":" /\ AllDigits(F(11, 12))
               /\ s[yl + 13] = ":" /\ AllDigits(F(14, 15))
               /\ s[yl + 16] = "." /\ AllDigits(F(17, 19))
               /\ s[yl + 20] = "Z"
      ya == DigitsToNat(SubSeq(s, IF ext THEN 2 ELSE 1, yl))
      y == IF ext /\ s[1] = "-" THEN -ya ELSE ya
      m == DigitsToNat(F(2, 3))
      d == DigitsToNat(F(5, 6))
      hh == DigitsToNat(F(8, 9))
      mm == DigitsToNat(F(11, 12))
      ss == DigitsToNat(F(14, 15))
      ms == DigitsToNat(F(17, 19))
  IN IF ~shape THEN InvalidDate
     ELSE IF ~(m \in 1..12 /\ d \in 1..DaysInMonth(y, m) /\ hh <= 23 /\ mm <= 59 /\ ss <= 59)
     THEN InvalidDate
     ELSE DateOf(DaysFromCivil(y, m, d) * MsPerDay + hh * 3600000 + mm * 60000 + ss * 1000 + ms)

(***************************************************************************)
(* Binary data: an ArrayBuffer is the sequence of its bytes; a typed-array *)
(* view is a buffer with a byte offset and a byte length.  Base64 is the   *)
(* standard alphabet with padding (package base64-encoding).               *)
(***************************************************************************)
Buf(bytes) == [t |-> "buf", bytes |-> bytes]

View(buffer, off, len) == [t |-> "view", buffer |-> buffer, byteOffset |-> off, byteLength |-> len]

B64 == UpperLetters \o LowerLetters \o Digits \o <<"+", "/">>

RECURSIVE Base64Encode(_)
Base64Encode(b) ==
  IF Len(b) = 0 THEN <<>>
  ELSE IF Len(b) = 1
  THEN <<B64[(b[1] \div 4) + 1], B64[(b[1] % 4) * 16 + 1], "=", "=">>
  ELSE IF Len(b) = 2
  THEN <<B64[(b[1] \div 4) + 1], B64[(b[1] % 4) * 16 + (b[2] \div 16) + 1],
         B64[(b[2] % 16) * 4 + 1], "=">>
  ELSE <<B64[(b[1] \div 4) + 1], B64[(b[1] % 4) * 16 + (b[2] \div 16) + 1],
         B64[(b[2] % 16) * 4 + (b[3] \div 64) + 1], B64[(b[3] % 64) + 1]>>
         \o Base64Encode(SubSeq(b, 4, Len(b)))

B64Val(c) == IndexOf(B64, c) - 1

\* text the encoder can have produced: groups of four, padding at the end
IsBase64(s) ==
  /\ Len(s) % 4 = 0
  /\ \A i \in 1..Len(s) : \/ s[i] \in Range(B64)
                          \/ s[i] = "=" /\ i >= Len(s) - 1 /\ (i = Len(s) \/ s[Len(s)] = "=")

RECURSIVE Base64Decode(_)
Base64Decode(s) ==
  IF Len(s) = 0 THEN <<>>
  ELSE LET a == B64Val(s[1])
           b == B64Val(s[2])
           b1 == a * 4 + (b \div 16)
       IN IF s[3] = "=" THEN <<b1>>
          ELSE LET c == B64Val(s[3])
                   b2 == (b % 16) * 16 + (c \div 4)
               IN IF s[4] = "=" THEN <<b1, b2>>
                  ELSE <<b1, b2, (c % 4) * 64 + B64Val(s[4])>>
                         \o Base64Decode(SubSeq(s, 5, Len(s)))

(***************************************************************************)
(* JS values used as keys.  An array is the sequence of its elements; each *)
(* array literal in a value is a distinct object, identified by its path   *)
(* from the root.  Hole is an index without an own element (sparse array); *)
(* Alias(p) is one more reference to the array object found at path p of   *)
(* the root, which is how a value shares an array or contains itself.      *)
(* Other(w) is any value of another type (undefined, null, boolean, ...).  *)
(***************************************************************************)
Str(s) == [t |-> "str", s |-> s]

Arr(e) == [t |-> "arr", e |-> e]

Hole == [t |-> "hole"]

Alias(p) == [t |-> "alias", path |-> p]

Other(w) == [t |-> "other", what |-> w]

Undefined == Other("undefined")

RECURSIVE NodeAt(_, _)
NodeAt(root, p) == IF p = <<>> THEN root ELSE NodeAt(root.e[Head(p)], Tail(p))

(***************************************************************************)
(* throwForDisallowedKey / isAllowedAsAKey                                 *)
(***************************************************************************)
isAllowedAsAKey(value) ==
  \/ IsNumber(value) \/ value.t = "str"
  \/ value.t \in {"arr", "alias"}
  \/ IsDate(value)
  \/ value.t = "view"
  \/ value.t = "buf"

throwForDisallowedKey(key) ==
  IF ~isAllowedAsAKey(key) THEN Throw("NotAllowedAsKey") ELSE Ok(Undefined)

(***************************************************************************)
(* valueToKey: IndexedDB's "convert a value to a key".  The result carries *)
(* the seen-set, which the calls of one conversion share.  Its exceptions  *)
(* are `new Error()`, named InvalidKey here.                               *)
(***************************************************************************)
RECURSIVE valueToKey(_, _, _, _)
RECURSIVE valueToKeyEntries(_, _, _, _, _, _)
valueToKey(root, input, ident, seen) ==
  CASE IsNumber(input) ->
         IF input.t = "nan" THEN [ok |-> FALSE, err |-> "InvalidKey", seen |-> seen]
         ELSE [ok |-> TRUE, v |-> input, seen |-> seen]
    [] IsDate(input) ->
         IF input.t = "baddate" THEN [ok |-> FALSE, err |-> "InvalidKey", seen |-> seen]
         ELSE [ok |-> TRUE, v |-> DateOf(input.ms), seen |-> seen]
    [] input.t = "str" -> [ok |-> TRUE, v |-> input, seen |-> seen]
    [] input.t = "buf" -> [ok |-> TRUE, v |-> input, seen |-> seen]
    [] input.t = "view" ->
         [ok |-> TRUE,
          v |-> Buf(SubSeq(input.buffer, input.byteOffset + 1, input.byteOffset + input.byteLength)),
          seen |-> seen]
    [] input.t = "alias" -> valueToKey(root, NodeAt(root, input.path), input.path, seen)
    [] input.t = "arr" ->
         IF ident \in seen THEN [ok |-> FALSE, err |-> "InvalidKey", seen |-> seen]
         ELSE valueToKeyEntries(root, input, ident, 1, seen \cup {ident}, <<>>)
    [] OTHER -> [ok |-> FALSE, err |-> "InvalidKey", seen |-> seen]

\* valueToKeyEntries passing over the indexes without an own element, as
\* forEach and map do
valueToKeyEntriesSkipsHoles(root, input, ident, i, seen, keys) ==
  IF i > Len(input.e) THEN [ok |-> TRUE, v |-> Arr(keys), seen |-> seen]
  ELSE IF input.e[i].t = "hole"
  THEN valueToKeyEntries(root, input, ident, i + 1, seen, keys)
  ELSE LET key == valueToKey(root, input.e[i], ident \o <<i>>, seen)
       IN IF ~key.ok THEN key
          ELSE valueToKeyEntries(root, input, ident, i + 1, key.seen, Append(keys, key.v))

\* valueToKeyEntries taking the array out of the seen-set when its loop ends
valueToKeyEntriesUnmarks(root, input, ident, i, seen, keys) ==
  IF i > Len(input.e) THEN [ok |-> TRUE, v |-> Arr(keys), seen |-> seen \ {ident}]
  ELSE IF input.e[i].t = "hole" THEN [ok |-> FALSE, err |-> "InvalidKey", seen |-> seen]
  ELSE LET key == valueToKey(root, input.e[i], ident \o <<i>>, seen)
       IN IF ~key.ok THEN key
          ELSE valueToKeyEntries(root, input, ident, i + 1, key.seen, Append(keys, key.v))

\* the loop `for (let i = 0; i < input.length; i++)` of the array branch
valueToKeyEntries(root, input, ident, i, seen, keys) ==
  IF i > Len(input.e) THEN [ok |-> TRUE, v |-> Arr(keys), seen |-> seen]
  ELSE IF input.e[i].t = "hole" THEN [ok |-> FALSE, err |-> "InvalidKey", seen |-> seen]
  ELSE LET key == valueToKey(root, input.e[i], ident \o <<i>>, seen)
       IN IF ~key.ok THEN key
          ELSE valueToKeyEntries(root, input, ident, i + 1, key.seen, Append(keys, key.v))

\* whether the key valueToKey returns is, or holds, an ArrayBuffer object of
\* its input: a blob is returned as it is, a view is copied by slice()
RECURSIVE valueToKeyShares(_)
valueToKeyShares(input) ==
  CASE input.t = "buf" -> TRUE
    [] input.t = "view" -> FALSE
    [] input.t = "arr" -> \E i \in 1..Len(input.e) : valueToKeyShares(input.e[i])
    [] OTHER -> FALSE

(***************************************************************************)
(* keyToKeyString: the stringification of a converted key.                 *)
(***************************************************************************)
RECURSIVE keyToKeyString(_)
RECURSIVE keyToKeyStringJoin(_, _)

\* needsTag without the tag pattern test
needsTagNoPattern(s) == s = <<>> \/ ARRAY_DELIMITERS(s)

\* needsTag with the tag pattern not anchored at the start
needsTagUnanchored(s) ==
  \/ s = <<>> \/ ARRAY_DELIMITERS(s)
  \/ \E i \in 1..(Len(s) - 1) : IsWordChar(s[i]) /\ s[i + 1] = ":"

\* needsTag without the test for the reserved characters
needsTagNoDelimiters(s) == s = <<>> \/ TYPED_REP(s)

\* needsTag without the empty string test
needsTagNonEmpty(s) == TYPED_REP(s) \/ ARRAY_DELIMITERS(s)

\* the test `key === '' || key.match(TYPED_REP) || key.match(ARRAY_DELIMITERS)`
needsTag(s) == s = <<>> \/ TYPED_REP(s) \/ ARRAY_DELIMITERS(s)

keyToKeyString(key) ==
  CASE key.t = "str" ->
         IF needsTag(key.s)
         THEN LET enc == encodeURIComponent(key.s)
              IN IF enc.ok THEN Ok(<<"s", ":">> \o enc.v) ELSE enc
         ELSE Ok(key.s)
    [] IsNumber(key) -> Ok(<<"n", ":">> \o NumberToString(key))
    [] key.t = "date" -> Ok(<<"d", ":">> \o toISOString(key.ms))
    [] key.t = "baddate" -> Throw("RangeError")
    [] key.t = "buf" -> Ok(<<"b", ":">> \o Base64Encode(key.bytes))
    [] key.t = "arr" ->
         LET parts == keyToKeyStringJoin(key.e, 1)
         IN IF parts.ok THEN Ok(<<"<">> \o parts.v \o <<">">>) ELSE parts
    [] OTHER -> Throw("Key not allowed")

\* keyToKeyStringJoin with join(',')
RECURSIVE keyToKeyStringJoinComma(_, _)
keyToKeyStringJoinComma(e, i) ==
  IF i > Len(e) THEN Ok(<<>>)
  ELSE LET part == keyToKeyString(e[i])
           rest == keyToKeyStringJoinComma(e, i + 1)
       IN IF ~part.ok THEN part
          ELSE IF ~rest.ok THEN rest
          ELSE Ok(part.v \o (IF i < Len(e) THEN <<",">> ELSE <<>>) \o rest.v)

\* key.map(keyToKeyString).join('|'), from element i on
keyToKeyStringJoin(e, i) ==
  IF i > Len(e) THEN Ok(<<>>)
  ELSE LET part == keyToKeyString(e[i])
           rest == keyToKeyStringJoin(e, i + 1)
       IN IF ~part.ok THEN part
          ELSE IF ~rest.ok THEN rest
          ELSE Ok(part.v \o (IF i < Len(e) THEN <<"|">> ELSE <<>>) \o rest.v)

(***************************************************************************)
(* partToKey: one key string, tag stripped, converted to its JS type.      *)
(***************************************************************************)
\* partToKey stripping every tag the pattern matches, known or not
partToKeyStripsUnknownTag(part) ==
  LET data == SubSeq(part, 3, Len(part))
  IN IF TYPED_REP(part)
     THEN CASE part[1] = "n" -> Ok(StringToNumber(data))
            [] part[1] = "d" -> Ok(DateParse(data))
            [] part[1] = "b" -> IF IsBase64(data) THEN Ok(Buf(Base64Decode(data)))
                                ELSE Throw("Base64 input outside the encoder's range")
            [] part[1] = "s" -> LET dec == decodeURIComponent(data)
                                IN IF dec.ok THEN Ok(Str(dec.v)) ELSE dec
            [] OTHER -> Ok(Str(data))
     ELSE Ok(Str(part))

partToKey(part) ==
  LET data == SubSeq(part, 3, Len(part))
  IN IF TYPED_REP(part) /\ part[1] \in {"n", "d", "b", "s"}
     THEN CASE part[1] = "n" -> Ok(StringToNumber(data))
            [] part[1] = "d" -> Ok(DateParse(data))
            [] part[1] = "b" -> IF IsBase64(data) THEN Ok(Buf(Base64Decode(data)))
                                ELSE Throw("Base64 input outside the encoder's range")
            [] part[1] = "s" -> LET dec == decodeURIComponent(data)
                                IN IF dec.ok THEN Ok(Str(dec.v)) ELSE dec
     ELSE Ok(Str(part))

(***************************************************************************)
(* keyStringToKey: the scanner over the delimiters, with the stack of      *)
(* arrays in progress (top first).  i is the position of the character     *)
(* examined and prev the start of the pending part, both counted from 1.   *)
(***************************************************************************)
\* keyStringToKeyScan returning the outermost array in progress at the end of
\* the input
RECURSIVE keyStringToKeyScanPartial(_, _, _, _)
keyStringToKeyScanPartial(key, i, prev, stack) ==
  IF i > Len(key) THEN (IF stack = <<>> THEN Throw("Malformed key") ELSE Ok(stack[Len(stack)]))
  ELSE IF ~IsDelimiter(key[i]) THEN keyStringToKeyScanPartial(key, i + 1, prev, stack)
  ELSE LET char == key[i]
           s1 == IF char = "<" THEN <<Arr(<<>>)>> \o stack ELSE stack
           closes == char \in {"|", ">"} /\ prev # i
           part == IF closes /\ s1 # <<>> THEN partToKey(SubSeq(key, prev, i - 1)) ELSE Ok(Undefined)
           s2 == IF closes /\ s1 # <<>> /\ part.ok
                 THEN <<Arr(Append(s1[1].e, part.v))>> \o Tail(s1)
                 ELSE s1
       IN IF closes /\ s1 = <<>> THEN Throw("TypeError")
          ELSE IF ~part.ok THEN part
          ELSE IF char = ">"
          THEN IF s2 = <<>> THEN Ok(Undefined)
               ELSE IF Len(s2) > 1
               THEN keyStringToKeyScanPartial(key, i + 1, i + 1,
                      <<Arr(Append(s2[2].e, s2[1]))>> \o SubSeq(s2, 3, Len(s2)))
               ELSE Ok(s2[1])
          ELSE keyStringToKeyScanPartial(key, i + 1, i + 1, s2)

RECURSIVE keyStringToKeyScan(_, _, _, _)
keyStringToKeyScan(key, i, prev, stack) ==
  IF i > Len(key) THEN Throw("Malformed key")
  ELSE IF ~IsDelimiter(key[i]) THEN keyStringToKeyScan(key, i + 1, prev, stack)
  ELSE LET char == key[i]
           s1 == IF char = "<" THEN <<Arr(<<>>)>> \o stack ELSE stack
           closes == char \in {"|", ">"} /\ prev # i
           part == IF closes /\ s1 # <<>> THEN partToKey(SubSeq(key, prev, i - 1)) ELSE Ok(Undefined)
           s2 == IF closes /\ s1 # <<>> /\ part.ok
                 THEN <<Arr(Append(s1[1].e, part.v))>> \o Tail(s1)
                 ELSE s1
       IN IF closes /\ s1 = <<>> THEN Throw("TypeError")
          ELSE IF ~part.ok THEN part
          ELSE IF char = ">"
          THEN IF s2 = <<>> THEN Ok(Undefined)
               ELSE IF Len(s2) > 1
               THEN keyStringToKeyScan(key, i + 1, i + 1,
                      <<Arr(Append(s2[2].e, s2[1]))>> \o SubSeq(s2, 3, Len(s2)))
               ELSE Ok(s2[1])
          ELSE keyStringToKeyScan(key, i + 1, i + 1, s2)

keyStringToKey(key) ==
  IF ~ARRAY_DELIMITERS(key) THEN partToKey(key)
  ELSE keyStringToKeyScan(key, 1, 1, <<>>)

(***************************************************************************)
(* encodeKey / decodeKey                                                   *)
(***************************************************************************)
\* encodeKey without the conversion of the value to a key
encodeKeyUnconverted(key) == keyToKeyString(key)

encodeKey(key) ==
  LET k == valueToKey(key, key, <<>>, {})
  IN IF k.ok THEN keyToKeyString(k.v) ELSE Throw(k.err)

decodeKey(key) == keyStringToKey(key)

(***************************************************************************)
(* Values and the TypesonPacker.  TSON.encapsulate turns a value into a    *)
(* JSON-safe tree and the set of the special types met, each with the path *)
(* of its node; TSON.revive puts them back.  The payload stored is the     *)
(* JSON text of the encapsulation, and kv.get(key, 'json') is its parse.   *)
(***************************************************************************)
JNull == [t |-> "null"]

RECURSIVE Encapsulable(_)
Encapsulable(v) ==
  \/ v.t \in {"null", "str", "num", "nan", "inf", "date"} \/ v = Undefined
  \/ v.t = "arr" /\ \A i \in 1..Len(v.e) : Encapsulable(v.e[i])

RECURSIVE TreeOf(_)
TreeOf(v) ==
  CASE v.t = "date" -> Num(v.ms)
    [] v.t = "nan" -> Str(<<"N", "a", "N">>)
    [] v.t = "inf" -> Str(NumberToString(v))
    [] v = Undefined -> JNull
    [] v.t = "arr" -> Arr([i \in 1..Len(v.e) |-> TreeOf(v.e[i])])
    [] OTHER -> v

RECURSIVE TypesOf(_, _)
TypesOf(v, path) ==
  CASE v.t = "date" -> {<<path, "date">>}
    [] v.t = "nan" -> {<<path, "nan">>}
    [] v.t = "inf" -> {<<path, IF v.neg THEN "negativeInfinity" ELSE "infinity">>}
    [] v = Undefined -> {<<path, "undef">>}
    [] v.t = "arr" -> UNION { TypesOf(v.e[i], Append(path, i)) : i \in 1..Len(v.e) }
    [] OTHER -> {}

TSON_encapsulate(value) ==
  IF ~Encapsulable(value) THEN Throw("TypeError")
  ELSE Ok([tree |-> TreeOf(value), types |-> TypesOf(value, <<>>)])

RECURSIVE ReviveAt(_, _, _)
ReviveAt(tree, types, path) ==
  CASE <<path, "date">> \in types -> DateOf(tree.n)
    [] <<path, "nan">> \in types -> NaN
    [] <<path, "infinity">> \in types -> Infinity
    [] <<path, "negativeInfinity">> \in types -> NegInfinity
    [] <<path, "undef">> \in types -> Undefined
    [] OTHER -> IF tree.t = "arr"
                THEN Arr([i \in 1..Len(tree.e) |-> ReviveAt(tree.e[i], types, Append(path, i))])
                ELSE tree

TSON_revive(obj) == ReviveAt(obj.tree, obj.types, <<>>)

(***************************************************************************)
(* The KV namespace: a function from the string keys present to their      *)
(* payloads.  list returns at most ListLimit names in lexicographic order, *)
(* after the cursor, which is the last name of the page before.            *)
(***************************************************************************)
EmptyKV == [x \in {} |-> JNull]

kvPut(store, key, payload) ==
  [x \in DOMAIN store \cup {key} |-> IF x = key THEN payload ELSE store[x]]

kvDelete(store, key) == [x \in DOMAIN store \ {key} |-> store[x]]

\* kv.get(key, 'json'): null for a key that is absent
kvGetJson(store, key) ==
  IF key \in DOMAIN store THEN store[key] ELSE [tree |-> JNull, types |-> {}]

NoString == [some |-> FALSE, s |-> <<>>]

Some(s) == [some |-> TRUE, s |-> s]

RECURSIVE LexLess(_, _)
LexLess(a, b) ==
  IF a = <<>> THEN b # <<>>
  ELSE IF b = <<>> THEN FALSE
  ELSE IF Ord(a[1]) # Ord(b[1]) THEN Ord(a[1]) < Ord(b[1])
  ELSE LexLess(Tail(a), Tail(b))

IsPrefix(p, x) == Len(p) <= Len(x) /\ SubSeq(x, 1, Len(p)) = p

RECURSIVE SortedNames(_)
SortedNames(S) ==
  IF S = {} THEN <<>>
  ELSE LET m == CHOOSE x \in S : \A y \in S \ {x} : LexLess(x, y)
       IN <<m>> \o SortedNames(S \ {m})

kvList(store, opts) ==
  LET matching == { x \in DOMAIN store :
                      /\ opts.prefix.some => IsPrefix(opts.prefix.s, x)
                      /\ opts.cursor.some => LexLess(opts.cursor.s, x) }
      sorted == SortedNames(matching)
      complete == Len(sorted) <= ListLimit
      page == IF complete THEN sorted ELSE SubSeq(sorted, 1, ListLimit)
  IN [keys |-> page, list_complete |-> complete,
      cursor |-> IF complete THEN NoString ELSE Some(page[ListLimit])]

(***************************************************************************)
(* CloudflareStorageArea.  An area is its name and whether it was given a  *)
(* namespace to share (name-prefixed keys) or is the KV binding itself.    *)
(* Every operation yields its result, the backing-store calls it issued in *)
(* order, and the store after it.                                          *)
(***************************************************************************)
DIV == "/"

\* this.#encodeKey
areaEncodeKey(area, k) ==
  LET enc == encodeKey(k)
  IN IF ~area.namespaced THEN enc
     ELSE IF enc.ok THEN Ok(area.name \o <<DIV>> \o enc.v) ELSE enc

\* this.#decodeKey
areaDecodeKey(area, k) ==
  decodeKey(IF area.namespaced THEN SubSeq(k, Len(area.name) + 2, Len(k)) ELSE k)

\* the list options this.#paginationHelper passes on
areaListOptions(area, opts) ==
  IF ~area.namespaced THEN opts
  ELSE [prefix |-> Some(area.name \o <<DIV>> \o (IF opts.prefix.some THEN opts.prefix.s ELSE <<>>))]

Outcome(result, calls, store) == [result |-> result, calls |-> calls, store |-> store]

PutCall(key, payload) == [call |-> "put", key |-> key, payload |-> payload]

GetCall(key) == [call |-> "get", key |-> key]

DeleteCall(key) == [call |-> "delete", key |-> key]

ListCall(opts, cursor) == [call |-> "list", prefix |-> opts.prefix, cursor |-> cursor]

\* TypesonPacker.get
packerGet(store, key) ==
  Outcome(Ok(TSON_revive(kvGetJson(store, key))), <<GetCall(key)>>, store)

\* TypesonPacker.set
packerSet(store, key, value) ==
  LET enc == TSON_encapsulate(value)
  IN IF ~enc.ok THEN Outcome(enc, <<>>, store)
     ELSE Outcome(Ok(Undefined), <<PutCall(key, enc.v)>>, kvPut(store, key, enc.v))

\* areaGet reading the key without the name of the area
areaGetUnprefixed(area, store, key) ==
  LET allowed == throwForDisallowedKey(key)
      enc == encodeKey(key)
  IN IF ~allowed.ok THEN Outcome(allowed, <<>>, store)
     ELSE IF ~enc.ok THEN Outcome(enc, <<>>, store)
     ELSE packerGet(store, enc.v)

areaGet(area, store, key) ==
  LET allowed == throwForDisallowedKey(key)
      enc == areaEncodeKey(area, key)
  IN IF ~allowed.ok THEN Outcome(allowed, <<>>, store)
     ELSE IF ~enc.ok THEN Outcome(enc, <<>>, store)
     ELSE packerGet(store, enc.v)

\* areaSet removing the entry before it writes it
areaSetDeletesFirst(area, store, key, value) ==
  LET allowed == throwForDisallowedKey(key)
      enc == areaEncodeKey(area, key)
      put == packerSet(kvDelete(store, enc.v), enc.v, value)
  IN IF ~allowed.ok THEN Outcome(allowed, <<>>, store)
     ELSE IF ~enc.ok THEN Outcome(enc, <<>>, store)
     ELSE Outcome(put.result, <<DeleteCall(enc.v)>> \o put.calls, put.store)

areaSet(area, store, key, value) ==
  LET allowed == throwForDisallowedKey(key)
      enc == areaEncodeKey(area, key)
  IN IF ~allowed.ok THEN Outcome(allowed, <<>>, store)
     ELSE IF ~enc.ok THEN Outcome(enc, <<>>, store)
     ELSE IF value = Undefined
     THEN Outcome(Ok(Undefined), <<DeleteCall(enc.v)>>, kvDelete(store, enc.v))
     ELSE packerSet(store, enc.v, value)

areaDelete(area, store, key) ==
  LET allowed == throwForDisallowedKey(key)
      enc == areaEncodeKey(area, key)
  IN IF ~allowed.ok THEN Outcome(allowed, <<>>, store)
     ELSE IF ~enc.ok THEN Outcome(enc, <<>>, store)
     ELSE Outcome(Ok(Undefined), <<DeleteCall(enc.v)>>, kvDelete(store, enc.v))

\* listCallOptions with the cursor replacing the options instead of joining them
listCallOptionsCursorOnly(opts, cursor) ==
  IF cursor.some THEN [prefix |-> NoString, cursor |-> cursor]
  ELSE [prefix |-> opts.prefix, cursor |-> cursor]

\* the options of one kv.list call of paginationHelper
listCallOptions(opts, cursor) == [prefix |-> opts.prefix, cursor |-> cursor]

\* clear: the loop of paginationHelper with the delete of every name yielded
RECURSIVE clearPages(_, _, _, _)
RECURSIVE clearNames(_, _, _, _)
clearNames(store, names, i, calls) ==
  IF i > Len(names) THEN [store |-> store, calls |-> calls]
  ELSE clearNames(kvDelete(store, names[i]), names, i + 1, Append(calls, DeleteCall(names[i])))

\* clearPages leaving the loop after its first page
clearPagesOnePage(store, opts, cursor, calls) ==
  LET page == kvList(store, listCallOptions(opts, cursor))
      after == clearNames(store, page.keys, 1, Append(calls, ListCall(opts, cursor)))
  IN Outcome(Ok(Undefined), after.calls, after.store)

clearPages(store, opts, cursor, calls) ==
  LET page == kvList(store, listCallOptions(opts, cursor))
      after == clearNames(store, page.keys, 1, Append(calls, ListCall(opts, cursor)))
  IN IF page.list_complete THEN Outcome(Ok(Undefined), after.calls, after.store)
     ELSE clearPages(after.store, opts, page.cursor, after.calls)

areaClear(area, store, opts) == clearPages(store, areaListOptions(area, opts), NoString, <<>>)

\* entries: the loop of paginationHelper with, for every name yielded, the
\* decoded key and the value read
RECURSIVE entriesPages(_, _, _, _, _, _)
RECURSIVE entriesNames(_, _, _, _, _, _)
\* yield [this.#decodeKey(key), await this.#packer.get(this.#kv, key)]
entriesYield(area, store, names, i, yielded, calls, key, value) ==
  IF ~key.ok THEN [ok |-> FALSE, err |-> key.err, yielded |-> yielded, calls |-> calls]
  ELSE entriesNames(area, store, names, i + 1,
                    Append(yielded, Arr(<<key.v, value.result.v>>)), calls \o value.calls)

entriesNames(area, store, names, i, yielded, calls) ==
  IF i > Len(names) THEN [ok |-> TRUE, yielded |-> yielded, calls |-> calls]
  ELSE entriesYield(area, store, names, i, yielded, calls,
                    areaDecodeKey(area, names[i]), packerGet(store, names[i]))

\* after the names of one page: stop at an error, end, or list again
entriesPage(area, store, opts, page, after) ==
  IF ~after.ok THEN Outcome([ok |-> FALSE, err |-> after.err, yielded |-> Arr(after.yielded)],
                            after.calls, store)
  ELSE IF page.list_complete THEN Outcome(Ok(Arr(after.yielded)), after.calls, store)
  ELSE entriesPages(area, store, opts, page.cursor, after.yielded, after.calls)

entriesPages(area, store, opts, cursor, yielded, calls) ==
  LET page == kvList(store, listCallOptions(opts, cursor))
  IN entriesPage(area, store, opts, page,
                 entriesNames(area, store, page.keys, 1, yielded,
                              Append(calls, ListCall(opts, cursor))))

areaEntries(area, store, opts) ==
  entriesPages(area, store, areaListOptions(area, opts), NoString, <<>>, <<>>)

\* keys: the loop of paginationHelper with the decoded key of every name
RECURSIVE keysPages(_, _, _, _, _, _)
RECURSIVE keysNames(_, _, _, _)
\* yield this.#decodeKey(key)
keysYield(area, names, i, yielded, key) ==
  IF ~key.ok THEN [ok |-> FALSE, err |-> key.err, yielded |-> yielded]
  ELSE keysNames(area, names, i + 1, Append(yielded, key.v))

keysNames(area, names, i, yielded) ==
  IF i > Len(names) THEN [ok |-> TRUE, yielded |-> yielded]
  ELSE keysYield(area, names, i, yielded, areaDecodeKey(area, names[i]))

\* after the names of one page: stop at an error, end, or list again
keysPage(area, store, opts, page, called, after) ==
  IF ~after.ok THEN Outcome([ok |-> FALSE, err |-> after.err, yielded |-> Arr(after.yielded)],
                            called, store)
  ELSE IF page.list_complete THEN Outcome(Ok(Arr(after.yielded)), called, store)
  ELSE keysPages(area, store, opts, page.cursor, after.yielded, called)

keysPages(area, store, opts, cursor, yielded, calls) ==
  LET page == kvList(store, listCallOptions(opts, cursor))
  IN keysPage(area, store, opts, page, Append(calls, ListCall(opts, cursor)),
              keysNames(area, page.keys, 1, yielded))

areaKeys(area, store, opts) ==
  keysPages(area, store, areaListOptions(area, opts), NoString, <<>>, <<>>)

(***************************************************************************)
(* The bounded sets the inputs are drawn from.                             *)
(***************************************************************************)
Strings(S, n) == UNION { [1..k -> S] : k \in 0..n }

ArraysOver(S) == { Arr(e) : e \in Strings(S, MaxArrLen) }

StrAlphabet == {"a", "n", ":", "<", "|", ">", "%", "é", LoneSurrogate}

RawAlphabet == {"<", "|", ">", "a", "s", ":", "%"}

ByteSet == {0, 1, 255}

foo == <<"f", "o", "o">>

bar == <<"b", "a", "r">>

hello == <<"h", "e", "l", "l", "o">>

withReserved == <<"w", "i", "t", "h", "|", "r", "e", "s", "e", "r", "v", "e", "d">>

\* the keys of the documentation
DocumentedKeys ==
  { Str(hello), Str(withReserved), Str(<<"e", ":", "v", "i", "l">>), Num(300), DateOf(0),
    Arr(<<Str(foo), Str(bar)>>), Arr(<<Str(foo), Str(bar), Num(3)>>),
    Arr(<<Str(foo), Arr(<<Num(1), Num(2)>>)>>) }

Views == { View(<<1, 0, 255>>, off, len) : off \in 0..3, len \in 0..3 } \ 
           { View(<<1, 0, 255>>, off, len) : off \in 1..3, len \in 3..3 }

TopAtoms ==
  { Str(s) : s \in Strings(StrAlphabet, MaxStrLen) }
    \cup { Num(n) : n \in {0, 7, -1, 10, 1234567} } \cup {NaN, Infinity, NegInfinity}
    \cup { DateOf(ms) : ms \in {0, 1, -1, 86399999, 951782400, 2147483647, -2073600000} }
    \cup {InvalidDate}
    \cup { Buf(b) : b \in Strings(ByteSet, 3) }
    \cup { v \in Views : v.byteOffset + v.byteLength <= 3 }
    \cup { Other(w) : w \in {"undefined", "null", "boolean", "object", "function", "symbol"} }

ElemAtoms ==
  { Str(<<>>), Str(<<"a">>), Str(<<"n", ":">>), Str(<<"|">>), Str(<<"a", ">">>),
    Str(<<LoneSurrogate>>), Num(0), Num(-3), Infinity, NaN, DateOf(0), InvalidDate,
    Buf(<<>>), Buf(<<255>>), View(<<1, 0, 255>>, 1, 1), Hole, Undefined, Other("object") }

NestAtoms == { Str(<<"a">>), Num(1) }

\* the arrays of at most two elements nested to depth d
RECURSIVE NestArr(_)
NestArr(d) ==
  IF d = 0 THEN {}
  ELSE LET S == NestAtoms \cup NestArr(d - 1)
       IN {Arr(<<>>)} \cup { Arr(<<x>>) : x \in S } \cup { Arr(<<x, y>>) : x \in S, y \in S }

\* arrays that hold one array object at more than one place
AliasedKeys ==
  { Arr(<<Alias(<<>>)>>),
    Arr(<<Str(<<"a">>), Arr(<<Alias(<<>>)>>)>>),
    Arr(<<Arr(<<Alias(<<1>>)>>)>>),
    Arr(<<Arr(<<>>), Alias(<<1>>)>>),
    Arr(<<Arr(<<Num(1)>>), Arr(<<Alias(<<1>>)>>)>>) }

KeyInputs == TopAtoms \cup ArraysOver(ElemAtoms) \cup NestArr(MaxDepth)
               \cup DocumentedKeys \cup AliasedKeys

RawInputs == Strings(RawAlphabet, MaxRawLen)
               \cup { <<"<", "a", "|", "<", "b", ">">>, <<"<", "a", "|", "b">>, <<"<", "a">>,
                      <<"n", ":", "a">>, <<"d", ":", "a">>, <<"b", ":", "%">>,
                      <<"x", ":", "a", "b", "c">>, <<"<", "x", ":", "a", "|", "_", ":", ">">> }

PairAlphabet == {"a", "n", ":", "<", "|", ">", "1"}

PairKeys ==
  { Str(s) : s \in Strings(PairAlphabet, MaxStrLen) }
    \cup { Num(1), Num(-1), Infinity, DateOf(0), DateOf(1), Buf(<<>>), Buf(<<0>>), Buf(<<0, 0>>),
           View(<<1, 0, 255>>, 1, 1), View(<<0, 0, 1>>, 1, 1) }
    \cup NestArr(MaxDepth - 1)
    \cup { Arr(<<Arr(<<>>)>>), Arr(<<Arr(<<Str(<<"a">>)>>), Str(<<"a">>)>>),
           Arr(<<Str(<<"a">>), Arr(<<Str(<<"a">>), Num(1)>>)>>) }

OtherKeys ==
  { Str(s) : s \in Strings(PairAlphabet, 1) }
    \cup { Str(<<"n", ":", "1">>), Str(<<"s", ":">>), Str(<<"<", ">">>), Str(<<"<", "a", ">">>),
           Str(<<"a", "|", "a">>), Str(<<"a", ":">>), Str(<<"b", ":">>),
           Str(<<"b", ":", "A", "A", "=", "=">>), Str(<<"n", ":", "I", "n", "f", "i", "n", "i", "t", "y">>),
           Str(<<"s", ":", "%", "3", "C">>), Str(<<"s", ":", "a">>),
           Str(<<"<", "a", "|", "n", ":", "1", ">">>), Str(<<"a", "|", "n", ":", "1">>) }
    \cup { Num(1), Infinity, DateOf(0), Buf(<<>>), Buf(<<0>>), View(<<0, 0, 1>>, 0, 1) }
    \cup NestArr(1)
    \cup { Arr(<<Arr(<<>>)>>), Arr(<<Arr(<<Str(<<"a">>)>>)>>), Arr(<<Arr(<<Str(<<"a">>)>>), Str(<<"a">>)>>),
           Arr(<<Str(<<"a">>), Arr(<<Str(<<"a">>)>>)>>), Arr(<<Arr(<<>>), Arr(<<>>)>>),
           Arr(<<Str(<<"a", "|", "a">>)>>), Arr(<<Str(<<"<", "a", ">">>)>>), Arr(<<Str(<<>>)>>) }

(***************************************************************************)
(* State.  The codec is exercised by input, other, encoded, otherEncoded,  *)
(* decoded, validated (the outcome of throwForDisallowedKey) and pc.       *)
(***************************************************************************)
VARIABLES input, other, encoded, otherEncoded, decoded, validated, pc

(***************************************************************************)
(* kv is the KV namespace the storage areas share; lastOp is the last      *)
(* operation called on a storage area, with its result and the             *)
(* backing-store calls it issued.                                          *)
(***************************************************************************)
VARIABLES kv, lastOp

(***************************************************************************)
(* backend is the listing the backing store will answer kv.list with, one  *)
(* response per call; lister holds the local variables and the position of *)
(* one invocation of clear, keys, values or entries over paginationHelper; *)
(* calls is the log of the backing-store calls that invocation has issued. *)
(***************************************************************************)
VARIABLES backend, lister, calls

codecVars == <<input, other, encoded, otherEncoded, decoded, validated, pc>>

pagingVars == <<backend, lister, calls>>

storeVars == <<kv, lastOp>>

vars == <<input, other, encoded, otherEncoded, decoded, validated, pc, kv, lastOp,
         backend, lister, calls>>

NoOptions == [prefix |-> NoString]

Op(op, area, key, value, opts, outcome) ==
  [op |-> op, area |-> area, key |-> key, value |-> value, opts |-> opts,
   result |-> outcome.result, calls |-> outcome.calls]

NoArea == [name |-> <<>>, namespaced |-> FALSE]

NoOp == Op("none", NoArea, Undefined, Undefined, NoOptions, Outcome(Ok(Undefined), <<>>, EmptyKV))

InitStore == kv = EmptyKV /\ lastOp = NoOp

\* no invocation of a paged operation
NoLister ==
  [op |-> "none", opts |-> NoOptions, pc |-> "idle", cursor |-> NoString, keys |-> <<>>,
   done |-> FALSE, i |-> 0, yielded |-> <<>>, out |-> <<>>, returned |-> 0,
   result |-> Ok(Undefined), store0 |-> EmptyKV]

InitPagingIdle == backend = [pages |-> <<>>, next |-> 1] /\ lister = NoLister /\ calls = <<>>

NotCalled == [ok |-> FALSE, err |-> "not called"]

KeyInput(k) == [mode |-> "key", v |-> k]

\* a string handed to decodeKey
RawInput(s) == [mode |-> "raw", v |-> Str(s)]

NoInput == [mode |-> "none", v |-> Undefined]

(***************************************************************************)
(* SpecCodec: encodeKey on a key, decodeKey on its result, decodeKey on a  *)
(* string that need not come from encodeKey, throwForDisallowedKey on a    *)
(* key.                                                                    *)
(***************************************************************************)
InitCodec ==
  /\ \/ \E k \in KeyInputs : input = KeyInput(k)
     \/ \E s \in RawInputs : input = RawInput(s)
  /\ other = NoInput
  /\ encoded = NotCalled
  /\ otherEncoded = NotCalled
  /\ decoded = NotCalled
  /\ validated = NotCalled
  /\ pc = "start"
  /\ InitStore
  /\ InitPagingIdle

EncodeKey ==
  /\ pc = "start" /\ input.mode = "key"
  /\ encoded' = encodeKey(input.v)
  /\ pc' = "encoded"
  /\ UNCHANGED <<input, other, otherEncoded, decoded, validated>>
  /\ UNCHANGED storeVars
  /\ UNCHANGED pagingVars

DecodeEncoded ==
  /\ pc = "encoded" /\ input.mode = "key" /\ other.mode = "none" /\ encoded.ok
  /\ decoded' = decodeKey(encoded.v)
  /\ pc' = "decoded"
  /\ UNCHANGED <<input, other, encoded, otherEncoded, validated>>
  /\ UNCHANGED storeVars
  /\ UNCHANGED pagingVars

DecodeRaw ==
  /\ pc = "start" /\ input.mode = "raw"
  /\ decoded' = decodeKey(input.v.s)
  /\ pc' = "decoded"
  /\ UNCHANGED <<input, other, encoded, otherEncoded, validated>>
  /\ UNCHANGED storeVars
  /\ UNCHANGED pagingVars

ThrowForDisallowedKey ==
  /\ pc = "start" /\ input.mode = "key"
  /\ validated' = throwForDisallowedKey(input.v)
  /\ pc' = "validated"
  /\ UNCHANGED <<input, other, encoded, otherEncoded, decoded>>
  /\ UNCHANGED storeVars
  /\ UNCHANGED pagingVars

NextCodec == EncodeKey \/ DecodeEncoded \/ DecodeRaw \/ ThrowForDisallowedKey

SpecCodec == InitCodec /\ [][NextCodec]_vars

(***************************************************************************)
(* SpecPair: encodeKey on two keys.                                        *)
(***************************************************************************)
InitPair ==
  /\ \E k \in PairKeys : input = KeyInput(k)
  /\ \E k \in OtherKeys : other = KeyInput(k)
  /\ encoded = NotCalled
  /\ otherEncoded = NotCalled
  /\ decoded = NotCalled
  /\ validated = NotCalled
  /\ pc = "start"
  /\ InitStore
  /\ InitPagingIdle

EncodePair ==
  /\ pc = "start" /\ input.mode = "key" /\ other.mode = "key"
  /\ encoded' = encodeKey(input.v)
  /\ otherEncoded' = encodeKey(other.v)
  /\ pc' = "encoded"
  /\ UNCHANGED <<input, other, decoded, validated>>
  /\ UNCHANGED storeVars
  /\ UNCHANGED pagingVars

NextPair == EncodePair

SpecPair == InitPair /\ [][NextPair]_vars

(***************************************************************************)
(* Spec: storage areas over one KV namespace, each operation one step.     *)
(***************************************************************************)
AreaA == [name |-> <<"a">>, namespaced |-> TRUE]

AreaAB == [name |-> <<"a", "/", "b">>, namespaced |-> TRUE]

\* an area constructed on the KV binding itself
AreaKV == [name |-> <<"K", "V">>, namespaced |-> FALSE]

Areas == {AreaA, AreaAB, AreaKV}

KeyX == Str(<<"x">>)

KeyFoo1 == Arr(<<Str(foo), Num(1)>>)

ValidStoreKeys == {KeyX, KeyFoo1}

InvalidStoreKeys ==
  { NaN, InvalidDate, Undefined, Arr(<<Str(<<"x">>), Hole>>), Arr(<<NaN>>),
    Arr(<<Str(<<"x">>), InvalidDate>>), Arr(<<Other("null")>>), Arr(<<Arr(<<Alias(<<>>)>>)>>) }

ValueBar2 == Arr(<<Str(bar), Num(2)>>)

StoreValues == {ValueBar2, DateOf(0), Undefined}

StoreOptions == {NoOptions, [prefix |-> Some(<<"b">>)]}

Init ==
  /\ input = NoInput
  /\ other = NoInput
  /\ encoded = NotCalled
  /\ otherEncoded = NotCalled
  /\ decoded = NotCalled
  /\ validated = NotCalled
  /\ pc = "store"
  /\ InitStore
  /\ InitPagingIdle

Get(keys) ==
  \E area \in Areas, key \in keys :
    \E outcome \in {areaGet(area, kv, key)} :
      /\ Cardinality(DOMAIN outcome.store) <= MaxEntries
      /\ kv' = outcome.store
      /\ lastOp' = Op("get", area, key, Undefined, NoOptions, outcome)
      /\ UNCHANGED codecVars
      /\ UNCHANGED pagingVars

Set(keys) ==
  \E area \in Areas, key \in keys, value \in StoreValues :
    \E outcome \in {areaSet(area, kv, key, value)} :
      /\ Cardinality(DOMAIN outcome.store) <= MaxEntries
      /\ kv' = outcome.store
      /\ lastOp' = Op("set", area, key, value, NoOptions, outcome)
      /\ UNCHANGED codecVars
      /\ UNCHANGED pagingVars

Delete(keys) ==
  \E area \in Areas, key \in keys :
    \E outcome \in {areaDelete(area, kv, key)} :
      /\ Cardinality(DOMAIN outcome.store) <= MaxEntries
      /\ kv' = outcome.store
      /\ lastOp' = Op("delete", area, key, Undefined, NoOptions, outcome)
      /\ UNCHANGED codecVars
      /\ UNCHANGED pagingVars

Clear ==
  \E area \in Areas, opts \in StoreOptions :
    \E outcome \in {areaClear(area, kv, opts)} :
      /\ Cardinality(DOMAIN outcome.store) <= MaxEntries
      /\ kv' = outcome.store
      /\ lastOp' = Op("clear", area, Undefined, Undefined, opts, outcome)
      /\ UNCHANGED codecVars
      /\ UNCHANGED pagingVars

Keys ==
  \E area \in Areas, opts \in StoreOptions :
    \E outcome \in {areaKeys(area, kv, opts)} :
      /\ Cardinality(DOMAIN outcome.store) <= MaxEntries
      /\ kv' = outcome.store
      /\ lastOp' = Op("keys", area, Undefined, Undefined, opts, outcome)
      /\ UNCHANGED codecVars
      /\ UNCHANGED pagingVars

Entries ==
  \E area \in Areas, opts \in StoreOptions :
    \E outcome \in {areaEntries(area, kv, opts)} :
      /\ Cardinality(DOMAIN outcome.store) <= MaxEntries
      /\ kv' = outcome.store
      /\ lastOp' = Op("entries", area, Undefined, Undefined, opts, outcome)
      /\ UNCHANGED codecVars
      /\ UNCHANGED pagingVars

Next ==
  \/ Get(ValidStoreKeys) \/ Set(ValidStoreKeys) \/ Delete(ValidStoreKeys)
  \/ Clear \/ Keys \/ Entries

Spec == Init /\ [][Next]_vars

(***************************************************************************)
(* SpecValidation: the single-key operations called with keys that fail    *)
(* validation, and with one key that passes.                               *)
(***************************************************************************)
ValidationKeys == {KeyX} \cup InvalidStoreKeys

NextValidation == Get(ValidationKeys) \/ Set(ValidationKeys) \/ Delete(ValidationKeys)

SpecValidation == Init /\ [][NextValidation]_vars

(***************************************************************************)
(* SpecPacker: the single-key operations of one storage area constructed   *)
(* with either packer.  The payload MsgPacker puts is the MessagePack      *)
(* envelope of the value, written and read by msgpackr.                    *)
(***************************************************************************)
BinaryEncoder_encode(value) == [msgpack |-> value]

BinaryDecoder_decode(data) == data.msgpack

\* kv.get(key, 'arrayBuffer'): null for a key that is absent
kvGetArrayBuffer(store, key) == IF key \in DOMAIN store THEN store[key] ELSE JNull

\* MsgPacker.set
msgPackerSet(store, key, value) ==
  Outcome(Ok(Undefined), <<PutCall(key, BinaryEncoder_encode(value))>>,
          kvPut(store, key, BinaryEncoder_encode(value)))

\* MsgPacker.get decoding whatever the store returned: msgpackr throws on the
\* empty buffer made of null
msgPackerGetUnguarded(store, key) ==
  LET data == kvGetArrayBuffer(store, key)
  IN Outcome(IF data = JNull THEN Throw("Error") ELSE Ok(BinaryDecoder_decode(data)),
             <<GetCall(key)>>, store)

\* MsgPacker.get: data && new BinaryDecoder(...).decode(new Uint8Array(data))
msgPackerGet(store, key) ==
  LET data == kvGetArrayBuffer(store, key)
  IN Outcome(Ok(IF data = JNull THEN data ELSE BinaryDecoder_decode(data)),
             <<GetCall(key)>>, store)

Packers == {"TypesonPacker", "MsgPacker"}

PackerAreas ==
  { [name |-> AreaA.name, namespaced |-> n, packer |-> p] : n \in BOOLEAN, p \in Packers }

PackerKeys == ValidStoreKeys \cup InvalidStoreKeys

\* get of an area with its packer
storageGet(area, store, key) ==
  LET allowed == throwForDisallowedKey(key)
      enc == areaEncodeKey(area, key)
  IN IF ~allowed.ok THEN Outcome(allowed, <<>>, store)
     ELSE IF ~enc.ok THEN Outcome(enc, <<>>, store)
     ELSE IF area.packer = "MsgPacker" THEN msgPackerGet(store, enc.v)
     ELSE packerGet(store, enc.v)

\* set of an area with its packer
storageSet(area, store, key, value) ==
  LET allowed == throwForDisallowedKey(key)
      enc == areaEncodeKey(area, key)
  IN IF ~allowed.ok THEN Outcome(allowed, <<>>, store)
     ELSE IF ~enc.ok THEN Outcome(enc, <<>>, store)
     ELSE IF value = Undefined
     THEN Outcome(Ok(Undefined), <<DeleteCall(enc.v)>>, kvDelete(store, enc.v))
     ELSE IF area.packer = "MsgPacker" THEN msgPackerSet(store, enc.v, value)
     ELSE packerSet(store, enc.v, value)

\* the area of the behaviour: the one of the operations before
SameArea(area) == lastOp = NoOp \/ lastOp.area = area

PackerGet ==
  \E area \in PackerAreas, key \in PackerKeys :
    /\ SameArea(area)
    /\ \E outcome \in {storageGet(area, kv, key)} :
         /\ kv' = outcome.store
         /\ lastOp' = Op("get", area, key, Undefined, NoOptions, outcome)
         /\ UNCHANGED codecVars
         /\ UNCHANGED pagingVars

PackerSet ==
  \E area \in PackerAreas, key \in PackerKeys, value \in StoreValues :
    /\ SameArea(area)
    /\ \E outcome \in {storageSet(area, kv, key, value)} :
         /\ kv' = outcome.store
         /\ lastOp' = Op("set", area, key, value, NoOptions, outcome)
         /\ UNCHANGED codecVars
         /\ UNCHANGED pagingVars

PackerDelete ==
  \E area \in PackerAreas, key \in PackerKeys :
    /\ SameArea(area)
    /\ \E outcome \in {areaDelete(area, kv, key)} :
         /\ kv' = outcome.store
         /\ lastOp' = Op("delete", area, key, Undefined, NoOptions, outcome)
         /\ UNCHANGED codecVars
         /\ UNCHANGED pagingVars

NextPacker == PackerGet \/ PackerSet \/ PackerDelete

SpecPacker == Init /\ [][NextPacker]_vars

(***************************************************************************)
(* SpecPaging: one invocation of clear, keys, values or entries on a       *)
(* storage area, every backing-store call a step of its own.  The backend  *)
(* answers the list calls with the pages of a listing fixed beforehand,    *)
(* whatever the calls carry, and any call may fail.                        *)
(***************************************************************************)
PagingArea == AreaA

\* the i-th name of the listing
PageName(i) == PagingArea.name \o <<DIV>> \o <<LowerLetters[i]>>

\* the value stored under the i-th name
PageValue(i) == Num(i)

RECURSIVE SumTo(_, _)
SumTo(sizes, p) == IF p = 0 THEN 0 ELSE sizes[p] + SumTo(sizes, p - 1)

\* a cursor the backend issues with page p
CursorOf(p) == Some(<<"c", Digits[p + 1]>>)

\* the response to the p-th list call: the next sizes[p] names, the
\* completion flag on the last page, a cursor with every page but the page
\* lacking (0 for none)
ListResponse(sizes, p, lacking) ==
  [keys |-> [j \in 1..sizes[p] |-> PageName(SumTo(sizes, p - 1) + j)],
   list_complete |-> p = Len(sizes),
   cursor |-> IF p # lacking THEN CursorOf(p) ELSE NoString]

PageSizes == UNION { [1..p -> 0..MaxPageKeys] : p \in 1..MaxPages }

Listing(sizes, lacking) == [p \in 1..Len(sizes) |-> ListResponse(sizes, p, lacking)]

\* the store that holds every name of the listing
StoreOf(sizes) ==
  [x \in { PageName(i) : i \in 1..SumTo(sizes, Len(sizes)) } |->
     TSON_encapsulate(PageValue(CHOOSE i \in 1..SumTo(sizes, Len(sizes)) : PageName(i) = x)).v]

PagedOps == {"clear", "keys", "values", "entries"}

\* the local variables of paginationHelper and of the loop over it, at the
\* start of an invocation: cursor is undefined
NewLister(op, opts, store) ==
  [op |-> op, opts |-> opts, pc |-> "list", cursor |-> NoString, keys |-> <<>>,
   done |-> FALSE, i |-> 0, yielded |-> <<>>, out |-> <<>>, returned |-> 0,
   result |-> Ok(Undefined), store0 |-> store]

InitPaging ==
  /\ input = NoInput
  /\ other = NoInput
  /\ encoded = NotCalled
  /\ otherEncoded = NotCalled
  /\ decoded = NotCalled
  /\ validated = NotCalled
  /\ pc = "paging"
  /\ lastOp = NoOp
  /\ \E sizes \in PageSizes, lacking \in {0, 1}, op \in PagedOps, opts \in StoreOptions :
       /\ lacking < Len(sizes)
       /\ backend = [pages |-> Listing(sizes, lacking), next |-> 1]
       /\ kv = StoreOf(sizes)
       /\ lister = NewLister(op, areaListOptions(PagingArea, opts), StoreOf(sizes))
       /\ calls = <<>>

\* kv.list({ ...cursor ? { ...opts, cursor } : opts }) is issued
ListKeys ==
  /\ lister.pc = "list"
  /\ \E options \in {listCallOptions(lister.opts, lister.cursor)} :
       calls' = Append(calls, ListCall(options, options.cursor))
  /\ lister' = [lister EXCEPT !.pc = "listing"]
  /\ UNCHANGED <<backend, kv, lastOp>>
  /\ UNCHANGED codecVars

\* ListReturns leaving the loop at once when the response is complete
ListReturnsLeavesAtComplete ==
  /\ lister.pc = "listing"
  /\ backend.next <= Len(backend.pages)
  /\ \E response \in {backend.pages[backend.next]} :
       lister' = [lister EXCEPT !.pc = IF response.list_complete THEN "done" ELSE "page",
                                !.keys = response.keys,
                                !.done = response.list_complete, !.cursor = response.cursor,
                                !.i = 1, !.returned = @ + 1]
  /\ backend' = [backend EXCEPT !.next = @ + 1]
  /\ UNCHANGED <<calls, kv, lastOp>>
  /\ UNCHANGED codecVars

\* ({ keys, list_complete: done, cursor } = await kv.list(...))
ListReturns ==
  /\ lister.pc = "listing"
  /\ backend.next <= Len(backend.pages)
  /\ \E response \in {backend.pages[backend.next]} :
       lister' = [lister EXCEPT !.pc = "page", !.keys = response.keys,
                                !.done = response.list_complete, !.cursor = response.cursor,
                                !.i = 1, !.returned = @ + 1]
  /\ backend' = [backend EXCEPT !.next = @ + 1]
  /\ UNCHANGED <<calls, kv, lastOp>>
  /\ UNCHANGED codecVars

\* BackendFails with the loop over the names catching the error of a delete
\* or a get and going on with the next name
BackendFailsGoesOn ==
  /\ lister.pc \in {"listing", "deleting", "getting"}
  /\ lister' = [lister EXCEPT !.pc = IF lister.pc = "listing" THEN "failed" ELSE "page",
                              !.i = IF lister.pc = "listing" THEN @ ELSE @ + 1,
                              !.returned = @ + 1,
                              !.result = Throw("BackendError")]
  /\ UNCHANGED <<backend, calls, kv, lastOp>>
  /\ UNCHANGED codecVars

\* the call outstanding rejects: the error leaves the loop and the operation
BackendFails ==
  /\ lister.pc \in {"listing", "deleting", "getting"}
  /\ lister' = [lister EXCEPT !.pc = "failed", !.returned = @ + 1,
                              !.result = Throw("BackendError")]
  /\ UNCHANGED <<backend, calls, kv, lastOp>>
  /\ UNCHANGED codecVars

\* ClearDelete with the delete not awaited: the loop goes on to the next name
ClearDeleteNotAwaited ==
  /\ lister.pc = "page" /\ lister.op = "clear" /\ lister.i <= Len(lister.keys)
  /\ calls' = Append(calls, DeleteCall(lister.keys[lister.i]))
  /\ lister' = [lister EXCEPT !.i = @ + 1, !.yielded = Append(@, lister.keys[lister.i])]
  /\ UNCHANGED <<backend, kv, lastOp>>
  /\ UNCHANGED codecVars

\* clear: the name is yielded and kv.delete(key) is issued
ClearDelete ==
  /\ lister.pc = "page" /\ lister.op = "clear" /\ lister.i <= Len(lister.keys)
  /\ calls' = Append(calls, DeleteCall(lister.keys[lister.i]))
  /\ lister' = [lister EXCEPT !.pc = "deleting", !.yielded = Append(@, lister.keys[lister.i])]
  /\ UNCHANGED <<backend, kv, lastOp>>
  /\ UNCHANGED codecVars

\* await this.#kv.delete(key) returns
DeleteReturns ==
  /\ lister.pc = "deleting"
  /\ kv' = kvDelete(kv, lister.keys[lister.i])
  /\ lister' = [lister EXCEPT !.pc = "page", !.i = @ + 1, !.returned = @ + 1]
  /\ UNCHANGED <<backend, calls, lastOp>>
  /\ UNCHANGED codecVars

\* keys: the name is yielded and its decoded key is yielded to the caller
KeysYield ==
  /\ lister.pc = "page" /\ lister.op = "keys" /\ lister.i <= Len(lister.keys)
  /\ \E key \in {areaDecodeKey(PagingArea, lister.keys[lister.i])} :
       lister' = IF key.ok
                 THEN [lister EXCEPT !.i = @ + 1, !.yielded = Append(@, lister.keys[lister.i]),
                                     !.out = Append(@, key.v)]
                 ELSE [lister EXCEPT !.pc = "failed", !.yielded = Append(@, lister.keys[lister.i]),
                                     !.result = Throw(key.err)]
  /\ UNCHANGED <<backend, calls, kv, lastOp>>
  /\ UNCHANGED codecVars

\* values: the name is yielded and this.#packer.get(this.#kv, key) is issued
ValuesGet ==
  /\ lister.pc = "page" /\ lister.op = "values" /\ lister.i <= Len(lister.keys)
  /\ calls' = Append(calls, GetCall(lister.keys[lister.i]))
  /\ lister' = [lister EXCEPT !.pc = "getting", !.yielded = Append(@, lister.keys[lister.i])]
  /\ UNCHANGED <<backend, kv, lastOp>>
  /\ UNCHANGED codecVars

\* entries: the name is yielded, its key is decoded and the get is issued
EntriesGet ==
  /\ lister.pc = "page" /\ lister.op = "entries" /\ lister.i <= Len(lister.keys)
  /\ \E key \in {areaDecodeKey(PagingArea, lister.keys[lister.i])} :
       IF key.ok
       THEN /\ calls' = Append(calls, GetCall(lister.keys[lister.i]))
            /\ lister' = [lister EXCEPT !.pc = "getting",
                                        !.yielded = Append(@, lister.keys[lister.i])]
       ELSE /\ calls' = calls
            /\ lister' = [lister EXCEPT !.pc = "failed",
                                        !.yielded = Append(@, lister.keys[lister.i]),
                                        !.result = Throw(key.err)]
  /\ UNCHANGED <<backend, kv, lastOp>>
  /\ UNCHANGED codecVars

\* the get returns: the value, or the pair of the decoded key and the value,
\* is yielded to the caller
GetReturns ==
  /\ lister.pc = "getting"
  /\ \E value \in {packerGet(kv, lister.keys[lister.i]).result.v} :
       lister' = [lister EXCEPT
                    !.pc = "page", !.i = @ + 1, !.returned = @ + 1,
                    !.out = Append(@, IF lister.op = "values" THEN value
                                      ELSE Arr(<<areaDecodeKey(PagingArea, lister.keys[lister.i]).v,
                                                 value>>))]
  /\ UNCHANGED <<backend, calls, kv, lastOp>>
  /\ UNCHANGED codecVars

\* PageEnds with the loop going on whatever the completion flag
PageEndsLoops ==
  /\ lister.pc = "page" /\ lister.i > Len(lister.keys)
  /\ lister' = [lister EXCEPT !.pc = "list"]
  /\ UNCHANGED <<backend, calls, kv, lastOp>>
  /\ UNCHANGED codecVars

\* the names of the page are used up: while (!done)
PageEnds ==
  /\ lister.pc = "page" /\ lister.i > Len(lister.keys)
  /\ lister' = [lister EXCEPT !.pc = IF lister.done THEN "done" ELSE "list"]
  /\ UNCHANGED <<backend, calls, kv, lastOp>>
  /\ UNCHANGED codecVars

\* a fresh invocation of the operation after one that ended, the backend
\* listing from its start
Invoke ==
  /\ lister.pc = "done"
  /\ lister' = NewLister(lister.op, lister.opts, kv)
  /\ backend' = [backend EXCEPT !.next = 1]
  /\ calls' = <<>>
  /\ UNCHANGED <<kv, lastOp>>
  /\ UNCHANGED codecVars

\* the steps of an invocation in which the backend answers
PagingProgress ==
  \/ ListKeys \/ ListReturns \/ ClearDelete \/ DeleteReturns \/ KeysYield
  \/ ValuesGet \/ EntriesGet \/ GetReturns \/ PageEnds

NextPaging == PagingProgress \/ BackendFails \/ Invoke

SpecPaging == InitPaging /\ [][NextPaging]_vars

\* SpecPaging with a backend that settles every call, so that each await of
\* the invocation resumes: the loop is never left waiting for ever
FairPaging == SpecPaging /\ WF_vars(PagingProgress)

(***************************************************************************)
(* Properties of the key codec.                                            *)
(***************************************************************************)
\* an allowed key: a string, a non-NaN number, a valid date, a binary blob
\* or view, or a dense acyclic array of allowed keys
RECURSIVE AllowedKey(_)
AllowedKey(k) ==
  \/ k.t \in {"str", "num", "inf", "date", "buf", "view"}
  \/ k.t = "arr" /\ \A i \in 1..Len(k.e) : AllowedKey(k.e[i])

\* the value a key is structurally equal to: a view is the blob of exactly
\* the bytes it covers
RECURSIVE Canon(_)
Canon(k) ==
  CASE k.t = "view" -> Buf([i \in 1..k.byteLength |-> k.buffer[k.byteOffset + i]])
    [] k.t = "arr" -> Arr([i \in 1..Len(k.e) |-> Canon(k.e[i])])
    [] OTHER -> k

Encoded == pc \in {"encoded", "decoded"} /\ input.mode = "key"

Decoded == pc = "decoded" /\ input.mode = "key"

HasTagPattern(s) == Len(s) >= 2 /\ s[2] = ":" /\ IsWordChar(s[1])

HasReservedChar(s) == \E i \in 1..Len(s) : s[i] \in {"<", "|", ">"}

IsPlainString(k) == k.t = "str" /\ k.s # <<>> /\ ~HasTagPattern(k.s) /\ ~HasReservedChar(k.s)

IsEscapedString(k) == k.t = "str" /\ (k.s = <<>> \/ HasTagPattern(k.s) \/ HasReservedChar(k.s))

\* C1: for every allowed key k, decodeKey(encodeKey(k)) is structurally
\* equal to k, a view compared as the blob of the bytes it covers
C1_RoundTrip ==
  Encoded /\ AllowedKey(input.v) =>
    /\ encoded.ok
    /\ pc = "decoded" => decoded = Ok(Canon(input.v))

\* C2: two allowed keys that are not structurally equal never encode to
\* the same string
C2_Injective ==
  /\ pc = "encoded" /\ other.mode = "key"
  /\ AllowedKey(input.v) /\ AllowedKey(other.v)
  /\ Canon(input.v) # Canon(other.v)
  => /\ encoded.ok /\ otherEncoded.ok
     /\ encoded.v # otherEncoded.v

C2_Witness ==
  /\ pc = "encoded" /\ other.mode = "key"
  /\ input.v = Str(<<"n", ":", "1">>) /\ other.v = Num(1)
  /\ encoded.ok /\ otherEncoded.ok

\* C6: a non-empty string without the tag pattern and without a delimiter
\* character encodes to itself and decodes to itself
C6_PlainIdentity ==
  Encoded /\ IsPlainString(input.v) =>
    /\ encoded = Ok(input.v.s)
    /\ pc = "decoded" => decoded = Ok(input.v)

C6_Witness == Decoded /\ input.v = Str(hello) /\ decoded = Ok(Str(hello))

\* C7: a string that is empty, has the tag pattern or contains a delimiter
\* character encodes to s: and its percent-encoding, and decodes to itself
C7_EscapedRoundTrip ==
  Encoded /\ IsEscapedString(input.v) =>
    /\ encoded.ok
    /\ SubSeq(encoded.v, 1, 2) = <<"s", ":">>
    /\ encodeURIComponent(input.v.s) = Ok(SubSeq(encoded.v, 3, Len(encoded.v)))
    /\ pc = "decoded" => decoded = Ok(input.v)

\* C8: encodeKey("") is "s:", and encodeKey returns the empty string for no key
C8_NeverEmpty ==
  Encoded =>
    /\ input.v = Str(<<>>) => encoded = Ok(<<"s", ":">>)
    /\ encoded.ok => encoded.v # <<>>

C8_Witness == Encoded /\ input.v = Str(<<>>) /\ encoded.ok

RECURSIVE JoinWithBar(_)
JoinWithBar(parts) ==
  IF parts = <<>> THEN <<>>
  ELSE IF Len(parts) = 1 THEN parts[1]
  ELSE parts[1] \o <<"|">> \o JoinWithBar(Tail(parts))

\* C9: the documented wire strings, and an array is '<', the encodings of
\* its elements in order joined by '|', '>'
C9_WireFormat ==
  Encoded =>
    /\ input.v = Num(300) => encoded = Ok(<<"n", ":", "3", "0", "0">>)
    /\ input.v = DateOf(0) =>
         encoded = Ok(<<"d", ":", "1", "9", "7", "0", "-", "0", "1", "-", "0", "1", "T",
                        "0", "0", ":", "0", "0", ":", "0", "0", ".", "0", "0", "0", "Z">>)
    /\ input.v = Arr(<<Str(foo), Str(bar), Num(3)>>) =>
         encoded = Ok(<<"<", "f", "o", "o", "|", "b", "a", "r", "|", "n", ":", "3", ">">>)
    /\ input.v = Arr(<<Str(foo), Arr(<<Num(1), Num(2)>>)>>) =>
         encoded = Ok(<<"<", "f", "o", "o", "|", "<", "n", ":", "1", "|", "n", ":", "2", ">", ">">>)
    /\ input.v.t = "arr" /\ AllowedKey(input.v) =>
         /\ encoded.ok
         /\ encoded.v = <<"<">> \o JoinWithBar([i \in 1..Len(input.v.e) |-> encodeKey(input.v.e[i]).v])
                          \o <<">">>

C9_Witness ==
  /\ Encoded /\ encoded.ok
  /\ input.v = Arr(<<Str(foo), Arr(<<Num(1), Num(2)>>)>>)

\* the nesting depth after the first i characters of s
RECURSIVE DepthAt(_, _)
DepthAt(s, i) ==
  IF i = 0 THEN 0
  ELSE DepthAt(s, i - 1) + (IF s[i] = "<" THEN 1 ELSE IF s[i] = ">" THEN -1 ELSE 0)

\* a composite string whose first '<' is never closed: every '|' and '>'
\* stands inside an array that is still open after it
Unclosed(s) ==
  /\ \E i \in 1..Len(s) : s[i] = "<"
  /\ \A i \in 1..Len(s) : s[i] \in {"|", ">"} => DepthAt(s, i) >= 1

\* the text between the delimiter at position i and the delimiter before it
PartBefore(s, i) ==
  LET before == { j \in 1..(i - 1) : s[j] \in {"<", "|", ">"} }
      from == IF before = {} THEN 1 ELSE (CHOOSE j \in before : \A l \in before : l <= j) + 1
  IN SubSeq(s, from, i - 1)

\* every element that a '|' or '>' completes can be converted
ElementsConvert(s) ==
  \A i \in 1..Len(s) : s[i] \in {"|", ">"} => partToKey(PartBefore(s, i)).ok

\* C10: decodeKey on a composite string whose '<' is never closed, scanned to
\* the end of the input, fails with the malformed-key error and returns no
\* partial structure
C10_UnclosedMalformed ==
  pc = "decoded" /\ input.mode = "raw" /\ Unclosed(input.v.s) /\ ElementsConvert(input.v.s)
    => decoded = Throw("Malformed key")

C10_Witness ==
  /\ pc = "decoded" /\ input.mode = "raw"
  /\ input.v.s = <<"<", "a", "|", "<", "b", ">">>
  /\ ~decoded.ok

(***************************************************************************)
(* Properties of the storage areas.                                        *)
(***************************************************************************)
\* C3: when set(k, v) with v not undefined has completed, get(k) on the same
\* area returns v, and still does after every operation of the area that is
\* neither a write nor a delete of k
C3_SetThenGet ==
  [][/\ lastOp'.op = "set" /\ lastOp'.result.ok /\ lastOp'.value # Undefined
          => areaGet(lastOp'.area, kv', lastOp'.key).result = Ok(lastOp'.value)
     /\ \A k \in ValidStoreKeys :
          \/ lastOp'.op \in {"get", "keys", "entries"}
          \/ lastOp'.op \in {"set", "delete"} /\ Canon(lastOp'.key) # Canon(k)
          => areaGet(lastOp'.area, kv', k).result = areaGet(lastOp'.area, kv, k).result]_vars

C3_Witness ==
  /\ lastOp.op = "set" /\ lastOp.result.ok
  /\ lastOp.area = AreaA /\ lastOp.key = KeyFoo1 /\ lastOp.value = ValueBar2
  /\ areaGet(AreaA, kv, KeyFoo1).result = Ok(ValueBar2)
  /\ Cardinality(DOMAIN kv) = 2

\* what get and entries of an area can observe
Observable(area, store) ==
  [entries |-> areaEntries(area, store, NoOptions).result,
   values |-> [k \in ValidStoreKeys |-> areaGet(area, store, k).result]]

\* C4: set, delete and clear on one named area of a shared namespace never
\* create, change or remove an entry that another named area can observe
C4_Isolation ==
  [][\A b \in Areas :
       /\ b.namespaced /\ lastOp'.area.namespaced /\ lastOp'.area.name # b.name
       /\ lastOp'.op \in {"set", "delete", "clear"}
       => Observable(b, kv') = Observable(b, kv)]_vars

\* a key that fails validation: a disallowed value, NaN, an invalid date, or
\* an array with such an element, a sparse slot or a reference to an array
\* that contains it
RECURSIVE FailsValidationAt(_, _)
FailsValidationAt(k, pos) ==
  \/ k.t \in {"other", "nan", "baddate", "hole"}
  \/ k.t = "alias" /\ IsPrefix(k.path, pos)
  \/ k.t = "arr" /\ \E i \in 1..Len(k.e) : FailsValidationAt(k.e[i], Append(pos, i))

\* C5: get, set and delete with a key that fails validation fail before any
\* backing-store call is issued and leave the backing store unchanged
C5_InvalidKeyNoCall ==
  [][lastOp'.op \in {"get", "set", "delete"} /\ FailsValidationAt(lastOp'.key, <<>>)
       => /\ ~lastOp'.result.ok
          /\ lastOp'.calls = <<>>
          /\ kv' = kv]_vars

C5_Witness ==
  /\ lastOp.op = "set" /\ lastOp.value = Undefined
  /\ lastOp.key = Arr(<<Arr(<<Alias(<<>>)>>)>>)
  /\ ~lastOp.result.ok
  /\ DOMAIN kv # {}

(***************************************************************************)
(* Properties of decodeKey on strings that need not come from encodeKey.   *)
(***************************************************************************)
\* the position of the first delimiter of s, 0 when it has none
FirstDelimiter(s) ==
  LET at == { i \in 1..Len(s) : IsDelimiter(s[i]) }
  IN IF at = {} THEN 0 ELSE CHOOSE i \in at : \A j \in at : i <= j

\* a '>' or a '|' occurs while no array is open: it is the first delimiter
NoFrameOpen(s) == FirstDelimiter(s) > 0 /\ s[FirstDelimiter(s)] \in {">", "|"}

\* C11: decodeKey on a string in which a '>' or a '|' occurs while no array
\* is open fails with the malformed-key error: it returns no value and fails
\* with no other error
C11_NoFrameMalformed ==
  pc = "decoded" /\ input.mode = "raw" /\ NoFrameOpen(input.v.s)
    => decoded = Throw("Malformed key")

\* s is in the range of encodeKey: it decodes to a key that encodes to s
InRange(s) ==
  LET d == decodeKey(s) IN d.ok /\ encodeKey(d.v) = Ok(s)

\* the position of the '>' that closes the outermost array, 0 when none does
OutermostClose(s) ==
  LET at == { i \in 1..Len(s) : s[i] = ">" /\ DepthAt(s, i) = 0 }
  IN IF at = {} THEN 0 ELSE CHOOSE i \in at : \A j \in at : i <= j

\* text before the first '<', or text after the '>' that closes the
\* outermost array
TextOutsideArray(s) ==
  /\ FirstDelimiter(s) > 0 /\ s[FirstDelimiter(s)] = "<"
  /\ \/ FirstDelimiter(s) > 1
     \/ OutermostClose(s) > 0 /\ OutermostClose(s) < Len(s)

\* C12: decodeKey on a string that is not in the range of encodeKey fails:
\* it returns no key built from part of the input (stated for the strings
\* with text before the first '<' or after the '>' that closes the outermost
\* array)
C12_NeverTruncates ==
  pc = "decoded" /\ input.mode = "raw" /\ TextOutsideArray(input.v.s) /\ ~InRange(input.v.s)
    => ~decoded.ok

(***************************************************************************)
(* Properties of the key validator.                                        *)
(***************************************************************************)
\* a string, a finite number, a Date, a binary blob or view, or an array
ValidatorDomain(k) == k.t \in {"str", "num", "date", "baddate", "buf", "view", "arr"}

\* C13: throwForDisallowedKey fails for every value that is not a string, a
\* finite number, a Date, a binary blob or view, or an array, so for NaN and
\* the infinities, and accepts every array whatever its elements
C13_ValidatorDomain ==
  pc = "validated" => (validated.ok <=> ValidatorDomain(input.v))

(***************************************************************************)
(* Properties of the paged operations.                                     *)
(***************************************************************************)
\* the names of the first n pages of the listing, in order
RECURSIVE NamesOfPages(_, _)
NamesOfPages(pages, n) ==
  IF n = 0 THEN <<>> ELSE NamesOfPages(pages, n - 1) \o pages[n].keys

\* the number of responses the backend has given
Served == backend.next - 1

Paging == lister.pc # "idle"

\* C14: the names paginationHelper yields are the names of the pages the
\* backend returned, in page order and in the order within each page, none
\* skipped and none twice, those of the page with the completion flag
\* included
C14_YieldsEveryPage ==
  Paging =>
    /\ IsPrefix(lister.yielded, NamesOfPages(backend.pages, Served))
    /\ lister.pc \in {"list", "listing"} /\ Served > 0 =>
         lister.yielded = NamesOfPages(backend.pages, Served)
    /\ lister.pc = "done" =>
         /\ backend.pages[Served].list_complete
         /\ lister.yielded = NamesOfPages(backend.pages, Served)

C14_Witness ==
  /\ lister.pc = "done" /\ Served = 3
  /\ \A p \in 1..3 : Len(backend.pages[p].keys) = 2
  /\ Len(lister.yielded) = 6

Ended == lister.pc \in {"done", "failed"}

\* C15: with a backend that reports completion the invocation ends: no list
\* call is issued once a response carried the completion flag, the first
\* list call of every invocation carries no cursor, and the lister always
\* comes to return or to throw
C15_Terminates ==
  /\ [](Paging /\ lister.done => lister.pc \notin {"list", "listing"})
  /\ [](Paging /\ calls # <<>> => calls[1] = ListCall(lister.opts, NoString))
  /\ [](Paging => <>Ended)

\* a second clear, begun on the store the first one emptied, has listed
\* every page and returned
C15_Witness ==
  /\ lister.pc = "done" /\ lister.op = "clear" /\ Served = MaxPages
  /\ DOMAIN lister.store0 = {}
  /\ NamesOfPages(backend.pages, Served) # <<>>

\* the names whose delete has returned when the call outstanding failed
DeletedBeforeFailure ==
  IF calls[Len(calls)].call = "delete"
  THEN SubSeq(lister.yielded, 1, Len(lister.yielded) - 1)
  ELSE lister.yielded

\* C16: when a backend call of clear() fails, the error is the result of
\* clear(), the names deleted are exactly those listed before the failing
\* call, a prefix of the listing, every other entry is as it was, and no
\* call follows the failing one
C16_ClearFailure ==
  /\ [](Paging /\ lister.op = "clear" /\ ~lister.result.ok =>
         /\ lister.pc = "failed"
         /\ lister.result = Throw("BackendError")
         /\ Len(calls) = lister.returned
         /\ IsPrefix(DeletedBeforeFailure, NamesOfPages(backend.pages, Len(backend.pages)))
         /\ DOMAIN kv = DOMAIN lister.store0 \ Range(DeletedBeforeFailure)
         /\ \A x \in DOMAIN kv : kv[x] = lister.store0[x])
  /\ [][lister.pc = "failed" => calls' = calls /\ kv' = kv]_vars

\* a delete of the second page failed
C16_Witness ==
  /\ lister.pc = "failed" /\ lister.op = "clear"
  /\ calls[Len(calls)].call = "delete"
  /\ Served = 2 /\ Len(lister.yielded) = 4
  /\ Cardinality(DOMAIN lister.store0) = 6
  /\ Cardinality(DOMAIN kv) = 3

IsListCall(c) == c.call = "list"

\* the list calls of the invocation, in the order issued
ListCalls == SelectSeq(calls, IsListCall)

\* C18: the first list call of an invocation carries the caller's filter
\* options and no cursor, and every later one carries the same options and
\* the cursor of the response before it, which was not complete
C18_CursorProtocol ==
  Paging =>
    \A n \in 1..Len(ListCalls) :
      /\ ListCalls[n].prefix = lister.opts.prefix
      /\ n = 1 => ListCalls[n].cursor = NoString
      /\ n > 1 => /\ ~backend.pages[n - 1].list_complete
                  /\ ListCalls[n].cursor = backend.pages[n - 1].cursor

\* a third list call, made with the cursor of the second response and the
\* prefix the caller gave
C18_Witness ==
  /\ Paging /\ Len(ListCalls) = 3
  /\ ListCalls[2].cursor = CursorOf(1)
  /\ ListCalls[3].cursor = CursorOf(2)
  /\ Len(lister.opts.prefix.s) > Len(PagingArea.name) + 1

IsKeyCall(c) == c.call \in {"delete", "get"}

\* the names deleted or read by the invocation, in the order of the calls
RECURSIVE KeysCalled(_)
KeysCalled(log) ==
  IF log = <<>> THEN <<>>
  ELSE LET front == KeysCalled(SubSeq(log, 1, Len(log) - 1))
       IN IF IsKeyCall(log[Len(log)]) THEN Append(front, log[Len(log)].key) ELSE front

\* the calls issued and not yet settled
Outstanding == Len(calls) - lister.returned

\* C19: the backend calls of clear, keys, values and entries are made one
\* after the other: at most one call is outstanding, a list call is issued
\* only when every name of the pages before it has been processed, and the
\* names deleted or read are the names listed, each once and in order
C19_Sequential ==
  Paging =>
    /\ Outstanding \in {0, 1}
    /\ Outstanding = 1 <=> lister.pc \in {"listing", "deleting", "getting"}
    /\ \A n \in 1..Len(calls) :
         IsListCall(calls[n]) =>
           KeysCalled(SubSeq(calls, 1, n)) =
             IF lister.op = "keys" THEN <<>>
             ELSE NamesOfPages(backend.pages, Len(SelectSeq(SubSeq(calls, 1, n), IsListCall)) - 1)
    /\ lister.pc \in {"list", "listing"} /\ Served > 0 =>
         lister.yielded = NamesOfPages(backend.pages, Served)
    /\ lister.op # "keys" =>
         /\ KeysCalled(calls) = lister.yielded
         /\ IsPrefix(KeysCalled(calls), NamesOfPages(backend.pages, Served))

\* values(): the get of the first name of the second page is outstanding,
\* the two names of the first page having been read
C19_Witness ==
  /\ lister.op = "values" /\ lister.pc = "getting"
  /\ Served = 2 /\ Len(backend.pages[1].keys) = 2
  /\ Len(KeysCalled(calls)) = 3 /\ Outstanding = 1

(***************************************************************************)
(* Properties of the packers.                                              *)
(***************************************************************************)
\* the string under which an area stores a key is not in the store
Absent(area, store, key) ==
  /\ throwForDisallowedKey(key).ok
  /\ areaEncodeKey(area, key).ok
  /\ areaEncodeKey(area, key).v \notin DOMAIN store

\* C17: get(k) of a key whose string is not in the backing store, be it
\* never set, deleted or set to undefined, does not throw and returns null,
\* the value the store reports for a missing key, with TypesonPacker and
\* with MsgPacker alike
C17_AbsentKey ==
  [][lastOp'.op = "get" /\ Absent(lastOp'.area, kv, lastOp'.key)
       => lastOp'.result = Ok(JNull)]_vars

\* MsgPacker: the key read is missing while another key is stored
C17_Witness ==
  /\ lastOp.op = "get" /\ lastOp.area.packer = "MsgPacker"
  /\ Absent(lastOp.area, kv, lastOp.key)
  /\ lastOp.result = Ok(JNull)
  /\ kv # EmptyKV

(***************************************************************************)
(* Frame of the single-key writes.                                         *)
(***************************************************************************)
\* every entry but the one under name is the same in both stores
SameButAt(before, after, name) ==
  /\ DOMAIN before \ {name} = DOMAIN after \ {name}
  /\ \A x \in DOMAIN before \ {name} : after[x] = before[x]

\* C20: a successful set(k, v) with v not undefined issues one put, on the
\* string of k in the area, and no other call, and a successful delete(k)
\* issues one delete on that string and no other call; the entries under
\* every other string are unchanged
C20_WriteFrame ==
  [][/\ lastOp'.op = "set" /\ lastOp'.result.ok /\ lastOp'.value # Undefined =>
          \E name \in {areaEncodeKey(lastOp'.area, lastOp'.key).v} :
            /\ lastOp'.calls = <<PutCall(name, TSON_encapsulate(lastOp'.value).v)>>
            /\ name \in DOMAIN kv' /\ kv'[name] = TSON_encapsulate(lastOp'.value).v
            /\ SameButAt(kv, kv', name)
     /\ lastOp'.op = "delete" /\ lastOp'.result.ok =>
          \E name \in {areaEncodeKey(lastOp'.area, lastOp'.key).v} :
            /\ lastOp'.calls = <<DeleteCall(name)>>
            /\ name \notin DOMAIN kv'
            /\ SameButAt(kv, kv', name)]_vars

\* a set on a named area of a store that holds another entry
C20_Witness ==
  /\ lastOp.op = "set" /\ lastOp.result.ok
  /\ lastOp.area = AreaAB /\ lastOp.key = KeyX /\ lastOp.value = DateOf(0)
  /\ lastOp.calls = <<PutCall(AreaAB.name \o <<DIV>> \o encodeKey(KeyX).v,
                               TSON_encapsulate(DateOf(0)).v)>>
  /\ Cardinality(DOMAIN kv) = 2

(***************************************************************************)
(* Properties of the conversion of a value to a key.                       *)
(***************************************************************************)
\* the array at position pos, or one nested in it, holds a reference to an
\* array that contains the reference
RECURSIVE HasCycleAt(_, _)
HasCycleAt(k, pos) ==
  \/ k.t = "alias" /\ IsPrefix(k.path, pos)
  \/ k.t = "arr" /\ \E i \in 1..Len(k.e) : HasCycleAt(k.e[i], pos \o <<i>>)

\* an array of the key has an index below its length without an own element
RECURSIVE IsSparse(_)
IsSparse(k) ==
  k.t = "arr" /\ \E i \in 1..Len(k.e) : k.e[i].t = "hole" \/ IsSparse(k.e[i])

\* C21: encodeKey of an array key that contains itself, directly or through
\* nested arrays, or that has an index without an own element, ends by
\* throwing the invalid-key error and returns no string
C21_CyclicOrSparse ==
  Encoded /\ input.v.t = "arr" /\ (HasCycleAt(input.v, <<>>) \/ IsSparse(input.v))
    => encoded = Throw("InvalidKey")

\* an array that holds itself inside a nested array
C21_Witness ==
  /\ Encoded /\ input.v = Arr(<<Str(<<"a">>), Arr(<<Alias(<<>>)>>)>>)
  /\ encoded = Throw("InvalidKey")

\* an array object of the key occurs at a second position
RECURSIVE HasAlias(_)
HasAlias(k) ==
  \/ k.t = "alias"
  \/ k.t = "arr" /\ \E i \in 1..Len(k.e) : HasAlias(k.e[i])

\* C28: the seen-set only grows during one encodeKey, so a key in which one
\* array object occurs at two positions fails with the invalid-key error,
\* cycle or not, while a key whose arrays are distinct objects, equal or
\* not, does not fail with it
C28_SharedArray ==
  Encoded /\ input.v.t = "arr" =>
    /\ HasAlias(input.v) => encoded = Throw("InvalidKey")
    /\ AllowedKey(input.v) => encoded # Throw("InvalidKey")

\* [a, a] for one empty array a
C28_Witness ==
  /\ Encoded /\ input.v = Arr(<<Arr(<<>>), Alias(<<1>>)>>)
  /\ ~HasCycleAt(input.v, <<>>)
  /\ encoded = Throw("InvalidKey")

\* the key is a blob or a view, or an array that holds one
RECURSIVE HasBinary(_)
HasBinary(k) ==
  \/ k.t \in {"buf", "view"}
  \/ k.t = "arr" /\ \E i \in 1..Len(k.e) : HasBinary(k.e[i])

\* C22: the key made of a view is a fresh blob of exactly the bytes the
\* view covers, so that the encoded string is that of those bytes, and the
\* key made of a blob is a copy of it too, not the blob itself
C22_BinaryCopied ==
  Encoded /\ encoded.ok /\ HasBinary(input.v) =>
    /\ encoded = encodeKey(Canon(input.v))
    /\ ~valueToKeyShares(input.v)

\* the part of C22 about views
C22_ViewCopied ==
  Encoded /\ input.v.t = "view" =>
    /\ encoded = keyToKeyString(Canon(input.v))
    /\ ~valueToKeyShares(input.v)

(***************************************************************************)
(* Properties of the decoder and of the encoded strings.                   *)
(***************************************************************************)
\* the string carries none of the tags n, d, b, s
Untagged(p) == ~(TYPED_REP(p) /\ p[1] \in {"n", "d", "b", "s"})

\* C23: decodeKey returns a string without delimiters and without one of
\* the tags n, d, b, s as it is, and likewise the one element of an array
\* string, whether the string has no \w: prefix or one with another
\* character
C23_UntaggedVerbatim ==
  pc = "decoded" /\ input.mode = "raw" =>
    /\ ~ARRAY_DELIMITERS(input.v.s) /\ Untagged(input.v.s)
         => decoded = Ok(Str(input.v.s))
    /\ \A p \in {SubSeq(input.v.s, 2, Len(input.v.s) - 1)} :
         /\ Len(input.v.s) >= 3
         /\ input.v.s[1] = "<" /\ input.v.s[Len(input.v.s)] = ">"
         /\ ~ARRAY_DELIMITERS(p) /\ Untagged(p)
         => decoded = Ok(Arr(<<Str(p)>>))

C23_Witness ==
  /\ pc = "decoded" /\ input.mode = "raw"
  /\ input.v.s = <<"x", ":", "a", "b", "c">>
  /\ decoded = Ok(Str(<<"x", ":", "a", "b", "c">>))

\* the number of characters c in s
Count(s, c) == Cardinality({ i \in 1..Len(s) : s[i] = c })

\* the number of arrays in a key, and of the gaps between their elements
RECURSIVE Arrays(_)
Arrays(k) ==
  IF k.t # "arr" THEN 0
  ELSE 1 + SumTo([i \in 1..Len(k.e) |-> Arrays(k.e[i])], Len(k.e))

RECURSIVE Gaps(_)
Gaps(k) ==
  IF k.t # "arr" THEN 0
  ELSE (IF Len(k.e) = 0 THEN 0 ELSE Len(k.e) - 1)
         + SumTo([i \in 1..Len(k.e) |-> Gaps(k.e[i])], Len(k.e))

\* the encoding of a key that is no array is not empty and has no delimiter
AtomEncoding ==
  Encoded /\ encoded.ok /\ input.v.t # "arr" =>
    encoded.v # <<>> /\ ~ARRAY_DELIMITERS(encoded.v)

\* in the encoding of an array every delimiter is one of the structure, and
\* the brackets are balanced
StructuralDelimiters ==
  Encoded /\ encoded.ok /\ input.v.t = "arr" =>
    /\ Count(encoded.v, "<") = Arrays(input.v)
    /\ Count(encoded.v, ">") = Arrays(input.v)
    /\ Count(encoded.v, "|") = Gaps(input.v)
    /\ \A i \in 1..Len(encoded.v) : DepthAt(encoded.v, i) >= (IF i = Len(encoded.v) THEN 0 ELSE 1)
    /\ DepthAt(encoded.v, Len(encoded.v)) = 0

\* the pairs of delimiters next to each other in the string
AdjacentDelimiters(s) ==
  { <<s[i], s[i + 1]>> : i \in { j \in 1..(Len(s) - 1) : IsDelimiter(s[j]) /\ IsDelimiter(s[j + 1]) } }

\* the '<>' of an empty array stands at positions j and j + 1
EmptyArrayAt(s, j) == j >= 1 /\ j < Len(s) /\ s[j] = "<" /\ s[j + 1] = ">"

\* C27 as stated: the encoding of a key that is no array is a non-empty
\* string without '<', '|', '>'; in the encoding of an array every delimiter
\* is structural, the brackets are balanced, and two delimiters are next to
\* each other only where one of them is of the '<>' of an empty array
C27_OnlyEmptyArraysAdjacent ==
  /\ AtomEncoding
  /\ StructuralDelimiters
  /\ Encoded /\ encoded.ok /\ input.v.t = "arr" =>
       \A i \in 1..(Len(encoded.v) - 1) :
         IsDelimiter(encoded.v[i]) /\ IsDelimiter(encoded.v[i + 1]) =>
           \E j \in {i - 1, i, i + 1} : EmptyArrayAt(encoded.v, j)

\* C27, amended: as above, but delimiters are next to each other at an empty
\* array and where an array begins or ends inside another: '<>', '<<',
\* '|<', '>|', '>>'; no element between two delimiters is empty, so '<|',
\* '||', '|>' and '><' do not occur
C27_Delimiters ==
  /\ AtomEncoding
  /\ StructuralDelimiters
  /\ Encoded /\ encoded.ok /\ input.v.t = "arr" =>
       AdjacentDelimiters(encoded.v) \subseteq
         {<<"<", ">">>, <<"<", "<">>, <<"|", "<">>, <<">", "|">>, <<">", ">">>}

\* ['foo', [1, 2]] encodes to <foo|<n:1|n:2>>
C27_Witness ==
  /\ Encoded /\ input.v = Arr(<<Str(foo), Arr(<<Num(1), Num(2)>>)>>)
  /\ encoded.ok
  /\ AdjacentDelimiters(encoded.v) = {<<"|", "<">>, <<">", ">">>}

(***************************************************************************)
(* Properties of clear, of set with undefined and of keys.                 *)
(***************************************************************************)
\* the name is one that a listing of the area with the options matches: it
\* starts with the name of the area and the separator, when the area is
\* namespaced, followed by the prefix of the options
ListedBy(area, opts, x) ==
  IsPrefix((IF area.namespaced THEN area.name \o <<DIV>> ELSE <<>>)
             \o (IF opts.prefix.some THEN opts.prefix.s ELSE <<>>), x)

\* C25: when clear() has returned, no name that its listing matches is in
\* the store, and every other name is there with the payload it had
C25_ClearRemovesListed ==
  [][lastOp'.op = "clear" /\ lastOp'.result.ok =>
       /\ DOMAIN kv' = { x \in DOMAIN kv : ~ListedBy(lastOp'.area, lastOp'.opts, x) }
       /\ \A x \in DOMAIN kv' : kv'[x] = kv[x]]_vars

\* a clear with a prefix has deleted an entry and left another
C25_Witness ==
  /\ lastOp.op = "clear" /\ lastOp.result.ok
  /\ lastOp.area = AreaA /\ lastOp.opts.prefix.some
  /\ \E n \in 1..Len(lastOp.calls) : lastOp.calls[n].call = "delete"
  /\ kv # EmptyKV

\* C26: set(k, undefined) does what delete(k) does: one delete on the string
\* of k in the area and no put, the same result and the same store; after
\* it get(k) returns null, the value of a missing key, and keys() of the
\* area does not yield k
C26_SetUndefinedDeletes ==
  [][lastOp'.op = "set" /\ lastOp'.value = Undefined /\ lastOp'.result.ok =>
       \E name \in {areaEncodeKey(lastOp'.area, lastOp'.key).v} :
         /\ lastOp'.calls = <<DeleteCall(name)>>
         /\ lastOp'.calls = areaDelete(lastOp'.area, kv, lastOp'.key).calls
         /\ lastOp'.result = areaDelete(lastOp'.area, kv, lastOp'.key).result
         /\ kv' = areaDelete(lastOp'.area, kv, lastOp'.key).store
         /\ name \notin DOMAIN kv'
         /\ areaGet(lastOp'.area, kv', lastOp'.key).result = Ok(JNull)
         /\ \E listed \in {areaKeys(lastOp'.area, kv', NoOptions).result} :
              listed.ok => Canon(lastOp'.key) \notin Range(listed.v.e)]_vars

\* the keys that keys() of the area yields
KeysOf(area, store) == areaKeys(area, store, NoOptions).result

\* C24: keys() of a namespaced area yields exactly the keys stored through
\* the area, each as a key structurally equal to the one passed to set: a
\* set through the area adds its key, a delete through the area removes it,
\* a set or delete through another area leaves the keys as they are, and no
\* key is yielded twice
C24_KeysOfArea ==
  [][\A b \in Areas :
       b.namespaced /\ lastOp'.op \in {"set", "delete"} /\ lastOp'.result.ok =>
         \E before \in {KeysOf(b, kv)}, after \in {KeysOf(b, kv')} :
           /\ before.ok /\ after.ok
           /\ Len(after.v.e) = Cardinality(Range(after.v.e))
           /\ Range(after.v.e) =
                IF lastOp'.area # b THEN Range(before.v.e)
                ELSE IF lastOp'.op = "set" /\ lastOp'.value # Undefined
                THEN Range(before.v.e) \cup {Canon(lastOp'.key)}
                ELSE Range(before.v.e) \ {Canon(lastOp'.key)}]_vars

====
